---- MODULE Spec2Model ----
(***************************************************************************)
(* LinguaLog backend: the fallback orchestrators (feedback_engine.py,      *)
(* app/feedback_engine.py) and the enrichment cache service                *)
(* (app/services/ai_enrichment_service.py) as state machines.              *)
(*                                                                         *)
(* Spec      the enrichment cache service, two concurrent callers.  Every  *)
(*           await of the coroutine is a scheduling point, so one action   *)
(*           is the code between two awaits.                               *)
(* SpecOrch  one analyze_entry call over its adapters and one call of      *)
(*           FeedbackEngine.generate_word_enrichment_details, under every  *)
(*           configuration of USE_MISTRAL and GEMINI_API_KEY.              *)
(* SpecValidate  GeminiEngine.analyze_text applied to a decoded answer     *)
(*           drawn from RawFeedback.                                       *)
(* SpecOnDemand  generate_more_examples, explain_like_i_am_five and        *)
(*           generate_mini_quiz next to the get_or_create calls of one     *)
(*           caller.                                                       *)
(* SpecServer  POST /log-entry: analyze_entry, then the response and the   *)
(*           saved entry.                                                  *)
(* SpecStartup  one analyze_entry call next to requests that resolve the   *)
(*           engines of app/dependencies.py.                               *)
(* SpecCancel  one analyze_entry call whose caller may cancel it while the *)
(*           Gemini API call is awaited.                                   *)
(* SpecV2    successive calls of the v2 enrichment service for one item.   *)
(* SpecNormalize  normalize_language on one input.                         *)
(* SpecPerField  one per-field generate_word_enrichment_details call.      *)
(*                                                                         *)
(* The persistence functions of database.py are modelled by what their     *)
(* bodies return (a row, or None on any failure); the store itself is the  *)
(* table word_ai_cache with its unique key (word_vocabulary_id, language). *)
(***************************************************************************)
EXTENDS Integers, Sequences, FiniteSets, TLC

(***************************************************************************)
(* Bounds of the model.                                                    *)
(***************************************************************************)
MaxCalls == 2

(***************************************************************************)
(* Values.  A generated or stored field value is a pair <<tag, n>>.        *)
(***************************************************************************)
None == <<"none", 0>>
EmptyList == <<"empty", 0>>
Corrupt == <<"corrupt", 0>>
Legacy == <<"content", 0>>
Content(g) == <<"content", g>>

\* The cultural notes the code writes when generation failed.
NOTE_GEMINI_FALLBACK == <<"note", 1>>    \* "Failed to generate details."
NOTE_ENGINE_EMPTY == <<"note", 2>>       \* "AI enrichment failed to generate data."
NOTE_ENGINE_ERROR == <<"note", 3>>       \* "Error generating AI details: ..."
NOTE_SERVICE_FALLBACK == <<"note", 4>>   \* "AI enrichment failed."

FailureNotes ==
  {NOTE_GEMINI_FALLBACK, NOTE_ENGINE_EMPTY, NOTE_ENGINE_ERROR, NOTE_SERVICE_FALLBACK}

SignalsFailure(note) == note \in FailureNotes

\* The optional fields of WordAiCacheBase that the model follows.
WordAiCacheFields == {"ai_example_sentences", "cultural_note", "mnemonic"}

Callers == {"c1", "c2"}
Languages == {"en", "es"}

NoItem == [absent |-> TRUE]
NoRow == [absent |-> TRUE]
NoDict == [absent |-> TRUE]
NoResult == [absent |-> TRUE]

\* The table user_vocabulary: i1 and i2 are complete items of two users,
\* i3 has no term, i0 does not exist.
user_vocabulary ==
  [i \in {"i1", "i2", "i3"} |->
     CASE i = "i1" -> [user_id |-> "u1", language |-> "en", word |-> "flabbergasted"]
       [] i = "i2" -> [user_id |-> "u2", language |-> "es", word |-> "hola"]
       [] OTHER    -> [user_id |-> "u1", language |-> "en", word |-> ""]]

Keys == {<<"i1", "en">>, <<"i2", "es">>}

(***************************************************************************)
(* Results of calls that may raise.                                        *)
(***************************************************************************)
Ret(d) == [raised |-> FALSE, value |-> d]
Exc == [raised |-> TRUE, value |-> NoDict]

EmptyText == <<"emptytext", 0>>
SourceModel == <<"model", 0>>

(***************************************************************************)
(* app/ai_engines/gemini_engine.py                                         *)
(***************************************************************************)
\* What the Gemini API call and the decoding of its text can come to.
ApiOutcomes == {"no_content", "bad_json", "json_object", "json_partial", "json_array"}

\* The dict returned when the API call or the JSON decoding failed.
GeminiFallbackDetails(language) ==
  [language |-> language, source_model |-> SourceModel,
   ai_example_sentences |-> EmptyList,
   ai_cultural_note |-> NOTE_GEMINI_FALLBACK,
   ai_pronunciation_guide |-> EmptyText]

\* GeminiEngine.generate_word_enrichment_details_gemini: the decoded object
\* with "language" and "source_model" added; a decoded JSON array makes the
\* item assignment raise; no text or undecodable text gives the fallback.
generate_word_enrichment_details_gemini(api, g, language) ==
  CASE api = "json_object" ->
         Ret([language |-> language, source_model |-> SourceModel,
              ai_example_sentences |-> Content(g),
              ai_cultural_note |-> Content(g),
              ai_pronunciation_guide |-> Content(g)])
    [] api = "json_partial" ->
         Ret([language |-> language, source_model |-> SourceModel,
              ai_example_sentences |-> Content(g)])
    [] api = "json_array" -> Exc
    [] OTHER -> Ret(GeminiFallbackDetails(language))

(***************************************************************************)
(* app/feedback_engine.py                                                  *)
(***************************************************************************)
EnginePlaceholder(language, note) ==
  [language |-> language,
   ai_example_sentences |-> EmptyList,
   ai_cultural_note |-> note]

\* FeedbackEngine.generate_word_enrichment_details: never raises; an empty
\* answer or an exception of the Gemini engine becomes a placeholder dict.
FeedbackEngine_generate_word_enrichment_details(raw, language) ==
  IF raw.raised THEN Ret(EnginePlaceholder(language, NOTE_ENGINE_ERROR))
  ELSE IF raw.value = NoDict THEN Ret(EnginePlaceholder(language, NOTE_ENGINE_EMPTY))
  ELSE Ret(raw.value)

(***************************************************************************)
(* The engine handed to the service: the FeedbackEngine of the application *)
(* (over the Gemini engine), or the engine of the service's tests, which   *)
(* returns MOCK_AI_GENERATED_DATA or raises.                               *)
(***************************************************************************)
Engines == {"FeedbackEngine", "TestEngine"}

MOCK_AI_GENERATED_DATA(g) ==
  [ai_example_sentences |-> Content(g),
   cultural_note |-> Content(g),
   mnemonic |-> Content(g)]

EngineOutcomes(engine) ==
  IF engine = "FeedbackEngine" THEN ApiOutcomes ELSE {"returns", "raises"}

EngineCall(engine, out, g, language) ==
  IF engine = "FeedbackEngine"
  THEN FeedbackEngine_generate_word_enrichment_details(
         generate_word_enrichment_details_gemini(out, g, language), language)
  ELSE IF out = "raises" THEN Exc ELSE Ret(MOCK_AI_GENERATED_DATA(g))

(***************************************************************************)
(* app/services/ai_enrichment_service.py                                   *)
(***************************************************************************)
ServiceFallback ==
  [ai_example_sentences |-> EmptyList,
   ai_cultural_note |-> NOTE_SERVICE_FALLBACK]

\* call_ai_for_word_enrichment: the engine's dict, or the fallback dict when
\* the engine raised.
call_ai_for_word_enrichment(engineRes) ==
  IF engineRes.raised THEN ServiceFallback ELSE engineRes.value

\* The pydantic model WordAiCacheCreate: an absent optional field is None,
\* a key that is no field is ignored.
WordAiCacheCreate(item_id, language, d) ==
  [word_vocabulary_id |-> item_id, language |-> language,
   data |-> [f \in WordAiCacheFields |-> IF f \in DOMAIN d THEN d[f] ELSE None]]

\* WordAiCacheCreate(word_vocabulary_id=item_id, language=language, **dict):
\* a dict that itself holds "language" gives the keyword twice, a TypeError.
BuildCacheCreateModel(item_id, language, d) ==
  IF "language" \in DOMAIN d THEN Exc
  ELSE Ret(WordAiCacheCreate(item_id, language, d))

\* model_dump(exclude_none=True)
model_dump_exclude_none(m) ==
  [m EXCEPT !.data = [f \in {x \in DOMAIN m.data : m.data[x] # None} |-> m.data[f]]]

\* A dump that leaves the None fields out of the payload.
model_dump_dropping_none(m) == model_dump_exclude_none(m)

\* model_dump(): every field, None included.
model_dump(m) == m

\* The pydantic model EnrichedWordDetailsResponse built from a dict: an
\* absent optional field is None; a value of the wrong shape fails validation.
EnrichedWordDetailsResponse(id, d) ==
  IF \E f \in DOMAIN d.data : d.data[f] = Corrupt THEN Exc
  ELSE Ret([id |-> id, word_vocabulary_id |-> d.word_vocabulary_id,
            language |-> d.language,
            data |-> [f \in WordAiCacheFields |->
                        IF f \in DOMAIN d.data THEN d.data[f] ELSE None]])

(***************************************************************************)
(* database.py                                                             *)
(***************************************************************************)
\* fetch_vocabulary_item_by_id_and_user: the row with this id and this
\* owner, None when there is none or when the query failed.
fetch_vocabulary_item_by_id_and_user(item_id, user_id, dbOk) ==
  IF dbOk /\ item_id \in DOMAIN user_vocabulary
          /\ user_vocabulary[item_id].user_id = user_id
  THEN user_vocabulary[item_id]
  ELSE NoItem

\* A lookup that never finds the row.
fetch_word_ai_cache_entry_never_finds(cache, item_id, language, dbOk) == NoRow

\* fetch_word_ai_cache_entry: the row of the key, None when there is none
\* or when the query failed.
fetch_word_ai_cache_entry(cache, item_id, language, dbOk) ==
  IF dbOk /\ <<item_id, language>> \in DOMAIN cache
  THEN cache[<<item_id, language>>]
  ELSE NoRow

\* An insert that leaves the row of an existing key as it is.
UpsertRow_keeping_existing(old, payload, newId) ==
  IF old = NoRow
  THEN [id |-> <<"db", newId>>,
        word_vocabulary_id |-> payload.word_vocabulary_id,
        language |-> payload.language,
        data |-> [f \in WordAiCacheFields |->
                    IF f \in DOMAIN payload.data THEN payload.data[f] ELSE None]]
  ELSE old

\* upsert(cache_data, on_conflict="word_vocabulary_id, language"): a new row
\* with a new id, or the row of the key with the columns of cache_data set
\* and its other columns kept.
UpsertRow(old, payload, newId) ==
  IF old = NoRow
  THEN [id |-> <<"db", newId>>,
        word_vocabulary_id |-> payload.word_vocabulary_id,
        language |-> payload.language,
        data |-> [f \in WordAiCacheFields |->
                    IF f \in DOMAIN payload.data THEN payload.data[f] ELSE None]]
  ELSE [old EXCEPT !.data = [f \in WordAiCacheFields |->
                    IF f \in DOMAIN payload.data THEN payload.data[f] ELSE old.data[f]]]

\* What the store answers to a write: done, refused, or done with the
\* answer lost on the way back.
DbWriteOutcomes == {"ok", "fail", "lost"}

\* save_word_ai_cache_entry: the stored row, or None on any failure.
save_word_ai_cache_entry(cache, payload, newId, db) ==
  LET key == <<payload.word_vocabulary_id, payload.language>>
      row == UpsertRow(cache[key], payload, newId)
  IN  [cache |-> IF db = "fail" THEN cache ELSE [cache EXCEPT ![key] = row],
       saved |-> IF db = "ok" THEN row ELSE NoRow]

(***************************************************************************)
(* app/services/ai_enrichment_service_v2.py: the enrichment is kept in the *)
(* columns of the user_vocabulary row itself.  A column value is absent    *)
(* from the dict, None, empty ([] or ""), or some content.                 *)
(***************************************************************************)
MaxV2Calls == 2

FieldValues == {"absent", "none", "empty", "content"}

\* Python truth value of a column value.
Truthy(v) == v = "content"

EnrichmentMarkers == {"ai_synonyms", "emoji", "emotion_tone"}
V2Columns == EnrichmentMarkers \cup {"ai_example_sentences"}

\* The rows the item can be before the first call.
V2Rows == {r \in [V2Columns -> FieldValues] : r.ai_example_sentences \in {"empty", "content"}}

\* d.get(key, default) on the value under the key.
dict_get(v, default) == IF v = "absent" THEN default ELSE v

\* A test on the presence of a value instead of its truth.
enrichment_exists_by_presence(vocab_item) ==
  \E f \in EnrichmentMarkers : vocab_item[f] \notin {"absent", "none"}

\* vocab_item.get('ai_synonyms') or vocab_item.get('emoji') or
\* vocab_item.get('emotion_tone')
enrichment_exists(vocab_item) ==
  \E f \in EnrichmentMarkers : Truthy(dict_get(vocab_item[f], "none"))

\* enrichment_data of the existing enrichment and enrichment_update of a
\* generated one: every column read with .get and its empty default.
enrichment_update(d) == [f \in V2Columns |-> dict_get(d[f], "empty")]

\* What the engine's call comes to: it raises, or returns a dict.
V2EngineOutcomes == {Exc} \cup {Ret(d) : d \in V2Rows}

V2UpdateOutcomes == {"ok", "fail", "lost"}

\* update_user_vocabulary_with_enrichment: the updated row, or None when
\* the update failed or its answer was lost.
update_user_vocabulary_with_enrichment(item, enrichment_data, db) ==
  [item |-> IF db = "fail" THEN item ELSE enrichment_data,
   updated |-> IF db = "ok" THEN enrichment_data ELSE NoRow]

\* No call of the v2 service has been made.
IdleV2 ==
  [calls |-> 0, item |-> [f \in V2Columns |-> "empty"],
   found |-> FALSE, before |-> [f \in V2Columns |-> "empty"],
   generated |-> FALSE, stored |-> FALSE, status |-> 0, result |-> NoResult]

\* get_or_create_enriched_details_service of the v2 module, from the fetch
\* of the item to the response or the HTTPException.
get_or_create_enriched_details_service_v2(st, vocab_item, out, db) ==
  LET begun == [st EXCEPT !.calls = @ + 1, !.found = vocab_item # NoItem,
                          !.before = st.item, !.generated = FALSE, !.stored = FALSE,
                          !.status = 0, !.result = NoResult]
  IN  IF vocab_item = NoItem THEN [begun EXCEPT !.status = 404]
      ELSE IF enrichment_exists(vocab_item)
      THEN [begun EXCEPT !.status = 200, !.result = enrichment_update(vocab_item)]
      ELSE IF out.raised THEN [begun EXCEPT !.generated = TRUE, !.status = 500]
      ELSE LET upd == enrichment_update(out.value)
               w == update_user_vocabulary_with_enrichment(st.item, upd, db)
           IN  IF w.updated = NoRow
               THEN [begun EXCEPT !.generated = TRUE, !.item = w.item,
                                  !.stored = (db = "lost"), !.status = 500]
               ELSE [begun EXCEPT !.generated = TRUE, !.item = w.item, !.stored = TRUE,
                                  !.status = 200, !.result = upd]

(***************************************************************************)
(* normalize_language.  A string is the sequence of its characters; a      *)
(* character outside ASCII is written by its code point ("u65e5").         *)
(***************************************************************************)
\* str.lower on the ASCII letters; the other characters of the table have
\* no upper case.
UpperToLower ==
  [c \in {"A", "B", "C", "D", "E", "F", "G", "H", "I", "J", "K", "L", "M", "N", "O", "P", "Q", "R", "S", "T", "U", "V", "W", "X", "Y", "Z"} |->
     CASE c = "A" -> "a"
       [] c = "B" -> "b"
       [] c = "C" -> "c"
       [] c = "D" -> "d"
       [] c = "E" -> "e"
       [] c = "F" -> "f"
       [] c = "G" -> "g"
       [] c = "H" -> "h"
       [] c = "I" -> "i"
       [] c = "J" -> "j"
       [] c = "K" -> "k"
       [] c = "L" -> "l"
       [] c = "M" -> "m"
       [] c = "N" -> "n"
       [] c = "O" -> "o"
       [] c = "P" -> "p"
       [] c = "Q" -> "q"
       [] c = "R" -> "r"
       [] c = "S" -> "s"
       [] c = "T" -> "t"
       [] c = "U" -> "u"
       [] c = "V" -> "v"
       [] c = "W" -> "w"
       [] c = "X" -> "x"
       [] c = "Y" -> "y"
       [] c = "Z" -> "z"]

\* LANGUAGE_MAPPINGS, its items in the order of the dict literal.
LANGUAGE_ITEMS ==
  <<
     <<<<"e", "s">>, <<"S", "p", "a", "n", "i", "s", "h">>>>,
     <<<<"s", "p", "a", "n", "i", "s", "h">>, <<"S", "p", "a", "n", "i", "s", "h">>>>,
     <<<<"s", "p", "a">>, <<"S", "p", "a", "n", "i", "s", "h">>>>,
     <<<<"e", "s", "p", "a", "u00f1", "o", "l">>, <<"S", "p", "a", "n", "i", "s", "h">>>>,
     <<<<"S", "p", "a", "n", "i", "s", "h">>, <<"e", "s">>>>,
     <<<<"E", "S", "P">>, <<"e", "s">>>>,
     <<<<"c", "a", "s", "t", "i", "l", "i", "a", "n">>, <<"S", "p", "a", "n", "i", "s", "h">>>>,
     <<<<"c", "a", "s", "t", "e", "l", "l", "a", "n", "o">>, <<"S", "p", "a", "n", "i", "s", "h">>>>,
     <<<<"e", "n">>, <<"E", "n", "g", "l", "i", "s", "h">>>>,
     <<<<"e", "n", "g", "l", "i", "s", "h">>, <<"E", "n", "g", "l", "i", "s", "h">>>>,
     <<<<"e", "n", "g">>, <<"E", "n", "g", "l", "i", "s", "h">>>>,
     <<<<"E", "n", "g", "l", "i", "s", "h">>, <<"e", "n">>>>,
     <<<<"E", "N", "G">>, <<"e", "n">>>>,
     <<<<"f", "r">>, <<"F", "r", "e", "n", "c", "h">>>>,
     <<<<"f", "r", "e", "n", "c", "h">>, <<"F", "r", "e", "n", "c", "h">>>>,
     <<<<"f", "r", "a">>, <<"F", "r", "e", "n", "c", "h">>>>,
     <<<<"f", "r", "a", "n", "u00e7", "a", "i", "s">>, <<"F", "r", "e", "n", "c", "h">>>>,
     <<<<"F", "r", "e", "n", "c", "h">>, <<"f", "r">>>>,
     <<<<"F", "R", "A">>, <<"f", "r">>>>,
     <<<<"f", "r", "a", "n", "c", "a", "i", "s">>, <<"F", "r", "e", "n", "c", "h">>>>,
     <<<<"d", "e">>, <<"G", "e", "r", "m", "a", "n">>>>,
     <<<<"g", "e", "r", "m", "a", "n">>, <<"G", "e", "r", "m", "a", "n">>>>,
     <<<<"d", "e", "u">>, <<"G", "e", "r", "m", "a", "n">>>>,
     <<<<"d", "e", "u", "t", "s", "c", "h">>, <<"G", "e", "r", "m", "a", "n">>>>,
     <<<<"G", "e", "r", "m", "a", "n">>, <<"d", "e">>>>,
     <<<<"D", "E", "U">>, <<"d", "e">>>>,
     <<<<"g", "e", "r">>, <<"G", "e", "r", "m", "a", "n">>>>,
     <<<<"i", "t">>, <<"I", "t", "a", "l", "i", "a", "n">>>>,
     <<<<"i", "t", "a", "l", "i", "a", "n">>, <<"I", "t", "a", "l", "i", "a", "n">>>>,
     <<<<"i", "t", "a">>, <<"I", "t", "a", "l", "i", "a", "n">>>>,
     <<<<"i", "t", "a", "l", "i", "a", "n", "o">>, <<"I", "t", "a", "l", "i", "a", "n">>>>,
     <<<<"I", "t", "a", "l", "i", "a", "n">>, <<"i", "t">>>>,
     <<<<"I", "T", "A">>, <<"i", "t">>>>,
     <<<<"p", "t">>, <<"P", "o", "r", "t", "u", "g", "u", "e", "s", "e">>>>,
     <<<<"p", "o", "r", "t", "u", "g", "u", "e", "s", "e">>, <<"P", "o", "r", "t", "u", "g", "u", "e", "s", "e">>>>,
     <<<<"p", "o", "r">>, <<"P", "o", "r", "t", "u", "g", "u", "e", "s", "e">>>>,
     <<<<"p", "o", "r", "t", "u", "g", "u", "u00ea", "s">>, <<"P", "o", "r", "t", "u", "g", "u", "e", "s", "e">>>>,
     <<<<"P", "o", "r", "t", "u", "g", "u", "e", "s", "e">>, <<"p", "t">>>>,
     <<<<"P", "O", "R">>, <<"p", "t">>>>,
     <<<<"p", "o", "r", "t", "u", "g", "u", "e", "s">>, <<"P", "o", "r", "t", "u", "g", "u", "e", "s", "e">>>>,
     <<<<"j", "a">>, <<"J", "a", "p", "a", "n", "e", "s", "e">>>>,
     <<<<"j", "a", "p", "a", "n", "e", "s", "e">>, <<"J", "a", "p", "a", "n", "e", "s", "e">>>>,
     <<<<"j", "p", "n">>, <<"J", "a", "p", "a", "n", "e", "s", "e">>>>,
     <<<<"u65e5", "u672c", "u8a9e">>, <<"J", "a", "p", "a", "n", "e", "s", "e">>>>,
     <<<<"J", "a", "p", "a", "n", "e", "s", "e">>, <<"j", "a">>>>,
     <<<<"J", "P", "N">>, <<"j", "a">>>>,
     <<<<"n", "i", "h", "o", "n", "g", "o">>, <<"J", "a", "p", "a", "n", "e", "s", "e">>>>,
     <<<<"z", "h">>, <<"C", "h", "i", "n", "e", "s", "e">>>>,
     <<<<"c", "h", "i", "n", "e", "s", "e">>, <<"C", "h", "i", "n", "e", "s", "e">>>>,
     <<<<"c", "m", "n">>, <<"C", "h", "i", "n", "e", "s", "e">>>>,
     <<<<"u4e2d", "u6587">>, <<"C", "h", "i", "n", "e", "s", "e">>>>,
     <<<<"C", "h", "i", "n", "e", "s", "e">>, <<"z", "h">>>>,
     <<<<"C", "H", "N">>, <<"z", "h">>>>,
     <<<<"m", "a", "n", "d", "a", "r", "i", "n">>, <<"C", "h", "i", "n", "e", "s", "e">>>>,
     <<<<"k", "o">>, <<"K", "o", "r", "e", "a", "n">>>>,
     <<<<"k", "o", "r", "e", "a", "n">>, <<"K", "o", "r", "e", "a", "n">>>>,
     <<<<"k", "o", "r">>, <<"K", "o", "r", "e", "a", "n">>>>,
     <<<<"ud55c", "uad6d", "uc5b4">>, <<"K", "o", "r", "e", "a", "n">>>>,
     <<<<"K", "o", "r", "e", "a", "n">>, <<"k", "o">>>>,
     <<<<"K", "O", "R">>, <<"k", "o">>>>,
     <<<<"h", "a", "n", "g", "u", "l">>, <<"K", "o", "r", "e", "a", "n">>>>,
     <<<<"r", "u">>, <<"R", "u", "s", "s", "i", "a", "n">>>>,
     <<<<"r", "u", "s", "s", "i", "a", "n">>, <<"R", "u", "s", "s", "i", "a", "n">>>>,
     <<<<"r", "u", "s">>, <<"R", "u", "s", "s", "i", "a", "n">>>>,
     <<<<"u0440", "u0443", "u0441", "u0441", "u043a", "u0438", "u0439">>, <<"R", "u", "s", "s", "i", "a", "n">>>>,
     <<<<"R", "u", "s", "s", "i", "a", "n">>, <<"r", "u">>>>,
     <<<<"R", "U", "S">>, <<"r", "u">>>>,
     <<<<"a", "r">>, <<"A", "r", "a", "b", "i", "c">>>>,
     <<<<"a", "r", "a", "b", "i", "c">>, <<"A", "r", "a", "b", "i", "c">>>>,
     <<<<"a", "r", "a">>, <<"A", "r", "a", "b", "i", "c">>>>,
     <<<<"u0627", "u0644", "u0639", "u0631", "u0628", "u064a", "u0629">>, <<"A", "r", "a", "b", "i", "c">>>>,
     <<<<"A", "r", "a", "b", "i", "c">>, <<"a", "r">>>>,
     <<<<"A", "R", "A">>, <<"a", "r">>>>,
     <<<<"n", "l">>, <<"D", "u", "t", "c", "h">>>>,
     <<<<"d", "u", "t", "c", "h">>, <<"D", "u", "t", "c", "h">>>>,
     <<<<"n", "l", "d">>, <<"D", "u", "t", "c", "h">>>>,
     <<<<"n", "e", "d", "e", "r", "l", "a", "n", "d", "s">>, <<"D", "u", "t", "c", "h">>>>,
     <<<<"D", "u", "t", "c", "h">>, <<"n", "l">>>>,
     <<<<"N", "L", "D">>, <<"n", "l">>>>,
     <<<<"s", "v">>, <<"S", "w", "e", "d", "i", "s", "h">>>>,
     <<<<"s", "w", "e", "d", "i", "s", "h">>, <<"S", "w", "e", "d", "i", "s", "h">>>>,
     <<<<"s", "w", "e">>, <<"S", "w", "e", "d", "i", "s", "h">>>>,
     <<<<"s", "v", "e", "n", "s", "k", "a">>, <<"S", "w", "e", "d", "i", "s", "h">>>>,
     <<<<"S", "w", "e", "d", "i", "s", "h">>, <<"s", "v">>>>,
     <<<<"S", "W", "E">>, <<"s", "v">>>>,
     <<<<"n", "o">>, <<"N", "o", "r", "w", "e", "g", "i", "a", "n">>>>,
     <<<<"n", "o", "r", "w", "e", "g", "i", "a", "n">>, <<"N", "o", "r", "w", "e", "g", "i", "a", "n">>>>,
     <<<<"n", "o", "r">>, <<"N", "o", "r", "w", "e", "g", "i", "a", "n">>>>,
     <<<<"n", "o", "r", "s", "k">>, <<"N", "o", "r", "w", "e", "g", "i", "a", "n">>>>,
     <<<<"N", "o", "r", "w", "e", "g", "i", "a", "n">>, <<"n", "o">>>>,
     <<<<"N", "O", "R">>, <<"n", "o">>>>,
     <<<<"d", "a">>, <<"D", "a", "n", "i", "s", "h">>>>,
     <<<<"d", "a", "n", "i", "s", "h">>, <<"D", "a", "n", "i", "s", "h">>>>,
     <<<<"d", "a", "n">>, <<"D", "a", "n", "i", "s", "h">>>>,
     <<<<"d", "a", "n", "s", "k">>, <<"D", "a", "n", "i", "s", "h">>>>,
     <<<<"D", "a", "n", "i", "s", "h">>, <<"d", "a">>>>,
     <<<<"D", "A", "N">>, <<"d", "a">>>>,
     <<<<"p", "l">>, <<"P", "o", "l", "i", "s", "h">>>>,
     <<<<"p", "o", "l", "i", "s", "h">>, <<"P", "o", "l", "i", "s", "h">>>>,
     <<<<"p", "o", "l">>, <<"P", "o", "l", "i", "s", "h">>>>,
     <<<<"p", "o", "l", "s", "k", "i">>, <<"P", "o", "l", "i", "s", "h">>>>,
     <<<<"P", "o", "l", "i", "s", "h">>, <<"p", "l">>>>,
     <<<<"P", "O", "L">>, <<"p", "l">>>>,
     <<<<"c", "s">>, <<"C", "z", "e", "c", "h">>>>,
     <<<<"c", "z", "e", "c", "h">>, <<"C", "z", "e", "c", "h">>>>,
     <<<<"c", "e", "s">>, <<"C", "z", "e", "c", "h">>>>,
     <<<<"u010d", "e", "u0161", "t", "i", "n", "a">>, <<"C", "z", "e", "c", "h">>>>,
     <<<<"C", "z", "e", "c", "h">>, <<"c", "s">>>>,
     <<<<"C", "E", "S">>, <<"c", "s">>>>,
     <<<<"c", "e", "s", "t", "i", "n", "a">>, <<"C", "z", "e", "c", "h">>>>,
     <<<<"h", "u">>, <<"H", "u", "n", "g", "a", "r", "i", "a", "n">>>>,
     <<<<"h", "u", "n", "g", "a", "r", "i", "a", "n">>, <<"H", "u", "n", "g", "a", "r", "i", "a", "n">>>>,
     <<<<"h", "u", "n">>, <<"H", "u", "n", "g", "a", "r", "i", "a", "n">>>>,
     <<<<"m", "a", "g", "y", "a", "r">>, <<"H", "u", "n", "g", "a", "r", "i", "a", "n">>>>,
     <<<<"H", "u", "n", "g", "a", "r", "i", "a", "n">>, <<"h", "u">>>>,
     <<<<"H", "U", "N">>, <<"h", "u">>>>,
     <<<<"f", "i">>, <<"F", "i", "n", "n", "i", "s", "h">>>>,
     <<<<"f", "i", "n", "n", "i", "s", "h">>, <<"F", "i", "n", "n", "i", "s", "h">>>>,
     <<<<"f", "i", "n">>, <<"F", "i", "n", "n", "i", "s", "h">>>>,
     <<<<"s", "u", "o", "m", "i">>, <<"F", "i", "n", "n", "i", "s", "h">>>>,
     <<<<"F", "i", "n", "n", "i", "s", "h">>, <<"f", "i">>>>,
     <<<<"F", "I", "N">>, <<"f", "i">>>>,
     <<<<"t", "r">>, <<"T", "u", "r", "k", "i", "s", "h">>>>,
     <<<<"t", "u", "r", "k", "i", "s", "h">>, <<"T", "u", "r", "k", "i", "s", "h">>>>,
     <<<<"t", "u", "r">>, <<"T", "u", "r", "k", "i", "s", "h">>>>,
     <<<<"t", "u00fc", "r", "k", "u00e7", "e">>, <<"T", "u", "r", "k", "i", "s", "h">>>>,
     <<<<"T", "u", "r", "k", "i", "s", "h">>, <<"t", "r">>>>,
     <<<<"T", "U", "R">>, <<"t", "r">>>>,
     <<<<"t", "u", "r", "k", "c", "e">>, <<"T", "u", "r", "k", "i", "s", "h">>>>,
     <<<<"e", "l">>, <<"G", "r", "e", "e", "k">>>>,
     <<<<"g", "r", "e", "e", "k">>, <<"G", "r", "e", "e", "k">>>>,
     <<<<"e", "l", "l">>, <<"G", "r", "e", "e", "k">>>>,
     <<<<"u03b5", "u03bb", "u03bb", "u03b7", "u03bd", "u03b9", "u03ba", "u03ac">>, <<"G", "r", "e", "e", "k">>>>,
     <<<<"G", "r", "e", "e", "k">>, <<"e", "l">>>>,
     <<<<"E", "L", "L">>, <<"e", "l">>>>,
     <<<<"e", "l", "l", "i", "n", "i", "k", "a">>, <<"G", "r", "e", "e", "k">>>>,
     <<<<"h", "e">>, <<"H", "e", "b", "r", "e", "w">>>>,
     <<<<"h", "e", "b", "r", "e", "w">>, <<"H", "e", "b", "r", "e", "w">>>>,
     <<<<"h", "e", "b">>, <<"H", "e", "b", "r", "e", "w">>>>,
     <<<<"u05e2", "u05d1", "u05e8", "u05d9", "u05ea">>, <<"H", "e", "b", "r", "e", "w">>>>,
     <<<<"H", "e", "b", "r", "e", "w">>, <<"h", "e">>>>,
     <<<<"H", "E", "B">>, <<"h", "e">>>>,
     <<<<"h", "i">>, <<"H", "i", "n", "d", "i">>>>,
     <<<<"h", "i", "n", "d", "i">>, <<"H", "i", "n", "d", "i">>>>,
     <<<<"h", "i", "n">>, <<"H", "i", "n", "d", "i">>>>,
     <<<<"u0939", "u093f", "u0928", "u094d", "u0926", "u0940">>, <<"H", "i", "n", "d", "i">>>>,
     <<<<"H", "i", "n", "d", "i">>, <<"h", "i">>>>,
     <<<<"H", "I", "N">>, <<"h", "i">>>>,
     <<<<"t", "h">>, <<"T", "h", "a", "i">>>>,
     <<<<"t", "h", "a", "i">>, <<"T", "h", "a", "i">>>>,
     <<<<"t", "h", "a">>, <<"T", "h", "a", "i">>>>,
     <<<<"u0e44", "u0e17", "u0e22">>, <<"T", "h", "a", "i">>>>,
     <<<<"T", "h", "a", "i">>, <<"t", "h">>>>,
     <<<<"T", "H", "A">>, <<"t", "h">>>>,
     <<<<"v", "i">>, <<"V", "i", "e", "t", "n", "a", "m", "e", "s", "e">>>>,
     <<<<"v", "i", "e", "t", "n", "a", "m", "e", "s", "e">>, <<"V", "i", "e", "t", "n", "a", "m", "e", "s", "e">>>>,
     <<<<"v", "i", "e">>, <<"V", "i", "e", "t", "n", "a", "m", "e", "s", "e">>>>,
     <<<<"t", "i", "u1ebf", "n", "g", " ", "v", "i", "u1ec7", "t">>, <<"V", "i", "e", "t", "n", "a", "m", "e", "s", "e">>>>,
     <<<<"V", "i", "e", "t", "n", "a", "m", "e", "s", "e">>, <<"v", "i">>>>,
     <<<<"V", "I", "E">>, <<"v", "i">>>>,
     <<<<"t", "i", "e", "n", "g", " ", "v", "i", "e", "t">>, <<"V", "i", "e", "t", "n", "a", "m", "e", "s", "e">>>>
  >>

LanguageKeys == {LANGUAGE_ITEMS[i][1] : i \in 1..Len(LANGUAGE_ITEMS)}

LANGUAGE_MAPPINGS ==
  [k \in LanguageKeys |->
     LANGUAGE_ITEMS[CHOOSE i \in 1..Len(LANGUAGE_ITEMS) : LANGUAGE_ITEMS[i][1] = k][2]]

lower(str) ==
  [i \in 1..Len(str) |-> IF str[i] \in DOMAIN UpperToLower THEN UpperToLower[str[i]] ELSE str[i]]

RECURSIVE lstrip(_)
lstrip(str) == IF str # <<>> /\ Head(str) = " " THEN lstrip(Tail(str)) ELSE str

RECURSIVE rstrip(_)
rstrip(str) ==
  IF str # <<>> /\ str[Len(str)] = " " THEN rstrip(SubSeq(str, 1, Len(str) - 1)) ELSE str

strip(str) == rstrip(lstrip(str))

\* The first key of the dict, in its order, that is longer than three
\* characters and maps to the code; <<>> when there is none.
FirstNameOf(code) ==
  LET found == {i \in 1..Len(LANGUAGE_ITEMS) :
                  LANGUAGE_ITEMS[i][2] = code /\ Len(LANGUAGE_ITEMS[i][1]) > 3}
  IN  IF found = {} THEN <<>>
      ELSE LANGUAGE_ITEMS[CHOOSE i \in found : \A j \in found : i <= j][1]

\* cleaned_input = language_input.strip().lower()
cleaned_input(language_input) == lower(strip(language_input))

normalize_language(language_input, to_code) ==
  IF language_input = <<>> THEN language_input
  ELSE LET cleaned == cleaned_input(language_input)
       IN  IF cleaned \notin DOMAIN LANGUAGE_MAPPINGS THEN language_input
           ELSE LET mapped_value == LANGUAGE_MAPPINGS[cleaned]
                IN  IF to_code
                    THEN IF Len(mapped_value) > 3
                         THEN IF mapped_value \in DOMAIN LANGUAGE_MAPPINGS
                              THEN LANGUAGE_MAPPINGS[mapped_value]
                              ELSE language_input
                         ELSE mapped_value
                    ELSE IF Len(mapped_value) > 3 THEN mapped_value
                         ELSE IF FirstNameOf(mapped_value) # <<>>
                              THEN FirstNameOf(mapped_value)
                              ELSE language_input

\* No normalize_language call is being followed.
IdleNorm ==
  [pc |-> "idle", language_input |-> <<>>, to_code |-> TRUE,
   result |-> <<>>, again |-> <<>>]

(***************************************************************************)
(* backend/feedback_engine.py: generate_word_enrichment_details, one       *)
(* generation call for each key of PROMPTS_WORD_ENRICHMENT.                *)
(***************************************************************************)
PromptFields ==
  {"ai_example_sentences", "synonyms_antonyms", "related_phrases",
   "cultural_note", "emotion_tone", "mnemonic"}

\* The fields whose answer is decoded as JSON.
JsonFields == {"ai_example_sentences", "synonyms_antonyms", "related_phrases"}

EmptySynonymsAntonyms == <<"synonyms_antonyms", 0>>  \* {"synonyms": [], "antonyms": []}
NOT_AVAILABLE == <<"note", 5>>                       \* "AI enrichment not available."
NOT_APPLICABLE == <<"note", 6>>                      \* "N/A"

\* What one generation call comes to: an answer, an exception, and for a
\* JSON field text that is no JSON or the JSON value null.
FieldCallOutcomes(field_name) ==
  IF field_name \in JsonFields THEN {"ok", "raises", "bad_json", "null"}
  ELSE {"ok", "raises"}

\* get_field_data_gemini: generate_custom_json raises on text that is no
\* JSON object or array; every exception is answered with None.
get_field_data_gemini(field_name, out, g) == IF out = "ok" THEN Content(g) ELSE None

\* get_field_data_mistral: json.loads decides for a JSON field, with its
\* empty default on a decoding error; any other exception gives None.
get_field_data_mistral(field_name, out, g) ==
  CASE out = "ok" -> Content(g)
    [] out = "bad_json" ->
         IF field_name = "synonyms_antonyms" THEN EmptySynonymsAntonyms ELSE EmptyList
    [] OTHER -> None

\* A return that leaves synonyms_antonyms as the calls made it.
WithSynonymsAntonyms_unchecked(enrichment_data) == enrichment_data

\* if enrichment_data.get("synonyms_antonyms") is None: the empty default.
WithSynonymsAntonyms(enrichment_data) ==
  IF enrichment_data.synonyms_antonyms = None
  THEN [enrichment_data EXCEPT !.synonyms_antonyms = EmptySynonymsAntonyms]
  ELSE enrichment_data

\* The dict returned when neither engine is there.
NoEngineEnrichment ==
  [f \in PromptFields |->
     CASE f = "synonyms_antonyms" -> EmptySynonymsAntonyms
       [] f \in JsonFields -> EmptyList
       [] f = "emotion_tone" -> NOT_APPLICABLE
       [] OTHER -> NOT_AVAILABLE]

generate_word_enrichment_details(use_mistral, engine, outs, g) ==
  IF use_mistral
  THEN WithSynonymsAntonyms([f \in PromptFields |-> get_field_data_mistral(f, outs[f], g)])
  ELSE IF engine
  THEN WithSynonymsAntonyms([f \in PromptFields |-> get_field_data_gemini(f, outs[f], g)])
  ELSE NoEngineEnrichment

\* No per-field enrichment call has been made.
IdlePerField ==
  [pc |-> "idle", outs |-> [f \in PromptFields |-> "ok"], enrichment_data |-> NoDict]

(***************************************************************************)
(* Entry analysis: the adapters and analyze_entry's choice between them.   *)
(* A text is the sequence of its whitespace-separated words; a string the  *)
(* code builds around it is a sequence of tokens that contains it.         *)
(***************************************************************************)
MaxWords == 7
Vocabulary == {"goed", "store"}
\* The entry texts: up to MaxWords words, the first two chosen freely and
\* the later ones repeating them in turn.
Texts == {t \in UNION {[1..n -> Vocabulary] : n \in 0..MaxWords} :
            \A i \in 3..Len(t) : t[i] = t[i - 2]}

MOCK_SCORE_MIN == 70
MOCK_SCORE_MAX == 95
MISTRAL_MOCK_SCORE_MIN == 60
MISTRAL_MOCK_SCORE_MAX == 95
GEMINI_DEFAULT_SCORE == 50

\* Python values as (type, value).  isinstance(v, int) holds of an int and
\* of a bool, which Python makes a subclass of int (True == 1, False == 0).
PyInt(n) == <<"int", n>>
PyTrue == <<"bool", 1>>
PyNone == <<"NoneType", 0>>
isinstance_int(v) == v[1] \in {"int", "bool"}
InPercentRange(v) == 0 <= v[2] /\ v[2] <= 100

RubricKeys == {"grammar", "vocabulary", "complexity"}
ZeroRubric == [key \in RubricKeys |-> PyInt(0)]

\* text.split(): the words of the text.
Words(text) == {text[i] : i \in 1..Len(text)}

\* analyze_with_mock, with the values random draws: the score, the rubric,
\* the tone, the word of the first new_words entry and the word quoted in
\* the explanation.
MockSuggestions(text) ==
  (IF Len(text) > 3
   THEN <<[id |-> "mock-sugg-1", original |-> SubSeq(text, 1, 3)]>> ELSE <<>>)
  \o (IF Len(text) > 6
      THEN <<[id |-> "mock-sugg-2", original |-> SubSeq(text, 4, 6)]>> ELSE <<>>)

MockScores == {MOCK_SCORE_MIN, MOCK_SCORE_MAX}

\* The three draws of the rubric, all at the low or all at the high end.
MockRubrics ==
  {[grammar |-> PyInt(60), vocabulary |-> PyInt(65), complexity |-> PyInt(50)],
   [grammar |-> PyInt(90), vocabulary |-> PyInt(95), complexity |-> PyInt(85)]}

possible_tones == {"Reflective", "Confident", "Neutral", "Inquisitive"}

MockQuotableWords(text) == IF Words(text) = {} THEN {"example"} ELSE Words(text)

\* mock_new_words: one entry for a word of the text, a second one for
\* another word when the text has more than one.
MockNewWords(text, selected_word) ==
  (IF Words(text) # {}
   THEN <<[id |-> "mock-word-1", term |-> selected_word]>> ELSE <<>>)
  \o (IF Cardinality(Words(text)) > 1
      THEN <<[id |-> "mock-word-2",
              term |-> CHOOSE w \in Words(text) : w # selected_word]>>
      ELSE <<>>)

translation_target_lang(language) == IF language # "en" THEN "EN" ELSE "FR"

analyze_with_mock(text, language, fluency_score, mock_rubric, tone, selected_word, quoted) ==
  [corrected |-> <<"[Mock Corrected]">> \o text,
   rewrite |-> <<"[Mock Rewritten]">> \o text \o <<"(more fluently and naturally)">>,
   score |-> PyInt(fluency_score),
   rubric |-> mock_rubric,
   tone |-> <<tone>>,
   translation |-> <<"[Mock Translation to", translation_target_lang(language), "]">>
                     \o text,
   explanation |-> <<"[Mock Explanation]", "This is a mock explanation.", quoted>>,
   grammar_suggestions |-> MockSuggestions(text),
   new_words |-> MockNewWords(text, selected_word)]

\* mistral_engine.analyze_entry_mock: the score is under the key fluency_score.
MistralMockTones == {"neutral", "positive", "slightly concerned", "formal"}
mock_translation(language) ==
  IF language = "english"
  THEN <<"Ceci est une traduction fictive du texte anglais en", "French">>
  ELSE IF language = "spanish"
  THEN <<"Esta es una traduccion simulada del texto en espanol al ingles.">>
  ELSE <<"This is a mock translation of the", language, "text to", "English">>

analyze_entry_mock(text, language, fluency_score, tone) ==
  [corrected |-> <<"[Mock Corrected", language, "]">> \o text,
   rewrite |-> <<"[Mock Rewritten more fluently in", language, "]">> \o text,
   fluency_score |-> PyInt(fluency_score),
   tone |-> <<tone>>,
   translation |-> mock_translation(language),
   explanation |-> <<"[Mock Explanation]", "The anlysis was for", language>>]

\* mistral_engine.analyze_entry_with_transformers on a parsed model output.
analyze_entry_with_transformers(fluency_score) ==
  [corrected |-> <<"mistral:corrected_text">>,
   rewrite |-> <<"mistral:fluent_rewrite">>,
   fluency_score |-> PyInt(fluency_score),
   tone |-> <<"mistral:tone_analysis">>,
   translation |-> <<"mistral:target_language_translation">>,
   explanation |-> <<"mistral:explanation_of_changes">>]

MistralOutcomes == {"transformers", "mock", "raises"}
MistralModelScores == {0, 50, 100}
\* The draws of random.randint are taken at the ends of its range.
MistralScores(out) ==
  IF out = "transformers" THEN MistralModelScores
  ELSE IF out = "mock" THEN {MISTRAL_MOCK_SCORE_MIN, MISTRAL_MOCK_SCORE_MAX}
  ELSE {0}
MistralTones(out) == IF out = "mock" THEN MistralMockTones ELSE {"neutral"}

\* mistral_engine.analyze_entry: the model's analysis, the module's own mock
\* when the model is unavailable or its output unusable, or the exception of
\* get_model_and_tokenizer.
mistral_analyze_entry(text, language, out, fluency_score, tone) ==
  CASE out = "transformers" -> Ret(analyze_entry_with_transformers(fluency_score))
    [] out = "mock" -> Ret(analyze_entry_mock(text, language, fluency_score, tone))
    [] OTHER -> Exc

\* GeminiEngine._get_error_fallback
ERROR_EXPLANATION == "An error occurred while generating AI feedback:"
get_error_fallback(text, error_msg) ==
  [corrected |-> text,
   rewrite |-> <<"Could not generate rewrite due to an error:", error_msg>>,
   score |-> PyInt(0),
   rubric |-> ZeroRubric,
   tone |-> <<"Error">>,
   translation |-> <<"Could not generate translation due to an error:", error_msg>>,
   explanation |-> <<ERROR_EXPLANATION, error_msg, "Please try again.">>,
   grammar_suggestions |-> <<>>,
   new_words |-> <<>>]

(***************************************************************************)
(* The JSON object Gemini answers with is a function from the keys it      *)
(* holds to their values: feedback_json.get(key, default) is Get.  A list  *)
(* element is the set of keys it holds (or not a dict at all) and its      *)
(* position in the answer, which tells the elements apart.                 *)
(***************************************************************************)
MaxItems == 3
FeedbackKeys == {"corrected", "rewrite", "score", "tone", "translation",
                 "explanation", "rubric", "grammar_suggestions", "new_words"}
Get(d, key, default) == IF key \in DOMAIN d THEN d[key] ELSE default
Without(d, keys) == [k \in DOMAIN d \ keys |-> d[k]]

RawScores == {PyInt(0 - 1), PyInt(0), PyInt(100), PyInt(101), PyTrue,
              <<"float", 85>>, <<"str", 0>>, PyNone}
RawSubScores == {PyInt(0 - 1), PyInt(100), PyInt(101), PyTrue, <<"str", 0>>}
FullRubric == [key \in RubricKeys |-> PyInt(100)]
RawRubrics ==
  {[isDict |-> TRUE, scores |-> f] : f \in [RubricKeys -> RawSubScores]}
    \cup {[isDict |-> TRUE, scores |-> Without(FullRubric, {key})] : key \in RubricKeys}
    \cup {[isDict |-> FALSE, scores |-> <<>>]}

SuggestionKeys == {"original", "corrected", "note"}
NewWordKeys == {"term", "pos", "definition", "example", "proficiency"}
\* The elements a list can hold: a dict with the required keys, a dict that
\* lacks one of them, and a value that is not a dict.
RawItems(required) ==
  {[isDict |-> TRUE, keys |-> required],
   [isDict |-> TRUE, keys |-> required \ {CHOOSE k \in required : TRUE}],
   [isDict |-> FALSE, keys |-> {}]}
Tagged(kinds) ==
  [i \in 1..Len(kinds) |->
     [isDict |-> kinds[i].isDict, keys |-> kinds[i].keys, pos |-> i]]
RawLists(required) ==
  {[isList |-> TRUE, items |-> Tagged(kinds)] :
     kinds \in UNION {[1..n -> RawItems(required)] : n \in 0..MaxItems}}
    \cup {[isList |-> FALSE, items |-> <<>>]}

\* An answer with every key and valid values, and the answers that differ
\* from it in the score and the rubric, in the two lists, or in the keys
\* they hold.
CompleteFeedback ==
  [corrected |-> <<"gemini:corrected">>,
   rewrite |-> <<"gemini:rewrite">>,
   score |-> PyInt(100),
   tone |-> <<"gemini:tone">>,
   translation |-> <<"gemini:translation">>,
   explanation |-> <<"gemini:explanation">>,
   rubric |-> [isDict |-> TRUE, scores |-> FullRubric],
   grammar_suggestions |-> [isList |-> TRUE, items |-> <<>>],
   new_words |-> [isList |-> TRUE, items |-> <<>>]]
RawFeedback ==
  {[CompleteFeedback EXCEPT !.score = s, !.rubric = r] :
     s \in RawScores, r \in RawRubrics}
    \cup {[CompleteFeedback EXCEPT !.grammar_suggestions = g, !.new_words = w] :
            g \in RawLists(SuggestionKeys), w \in RawLists(NewWordKeys)}
    \cup {Without(CompleteFeedback, keys) : keys \in SUBSET FeedbackKeys}

\* The answers the orchestrator is run on.
SampledFeedback ==
  {[CompleteFeedback EXCEPT !.score = s, !.grammar_suggestions = g] :
     s \in {PyInt(100), PyInt(101), PyTrue},
     g \in {[isList |-> TRUE,
             items |-> Tagged(<<[isDict |-> TRUE, keys |-> SuggestionKeys],
                                [isDict |-> FALSE, keys |-> {}]>>)],
            [isList |-> FALSE, items |-> <<>>]}}
    \cup {Without(CompleteFeedback, {"score", "new_words"}),
          [CompleteFeedback EXCEPT !.new_words = [isList |-> FALSE, items |-> <<>>]]}

\* A validation that lets the score through as it came.
ValidScore_unchecked(raw) == raw

\* Validate score
ValidScore(raw) ==
  IF ~isinstance_int(raw) \/ ~InPercentRange(raw) THEN PyInt(GEMINI_DEFAULT_SCORE)
  ELSE raw

\* Validate rubric structure and scores
ValidRubric(raw) ==
  IF ~raw.isDict \/ \E key \in RubricKeys : key \notin DOMAIN raw.scores
  THEN ZeroRubric
  ELSE [key \in DOMAIN raw.scores |->
          IF ~isinstance_int(raw.scores[key]) \/ ~InPercentRange(raw.scores[key])
          THEN PyInt(0) ELSE raw.scores[key]]

\* Validate grammar_suggestions and new_words: the elements that are dicts
\* with the required keys, appended in the order of the answer.
IsValidSuggestion(sug) == sug.isDict /\ SuggestionKeys \subseteq sug.keys
IsValidWord(word) == word.isDict /\ NewWordKeys \subseteq word.keys
\* A validation that puts each kept element in front of the earlier ones.
RECURSIVE PrependValid(_)
PrependValid(items) ==
  IF items = <<>> THEN <<>>
  ELSE IF IsValidSuggestion(Head(items))
       THEN PrependValid(Tail(items)) \o <<Head(items)>>
       ELSE PrependValid(Tail(items))
ValidSuggestions_prepending(raw) ==
  IF ~raw.isList THEN <<>> ELSE PrependValid(raw.items)

ValidSuggestions(raw) ==
  IF ~raw.isList THEN <<>> ELSE SelectSeq(raw.items, IsValidSuggestion)
ValidWords(raw) ==
  IF ~raw.isList THEN <<>> ELSE SelectSeq(raw.items, IsValidWord)

\* The values of the answer under the nine keys, none of them validated.
ProcessedFeedback_unvalidated(feedback_json) ==
  [key \in FeedbackKeys |->
     Get(feedback_json, key,
         IF key = "score" THEN PyInt(GEMINI_DEFAULT_SCORE)
         ELSE IF key = "rubric" THEN ZeroRubric ELSE <<>>)]

\* The processed feedback of GeminiEngine.analyze_text for a parsed object.
ProcessedFeedback(feedback_json) ==
  [corrected |-> Get(feedback_json, "corrected",
                     <<"Content for 'corrected' not provided by AI.">>),
   rewrite |-> Get(feedback_json, "rewrite",
                   <<"Content for 'rewrite' not provided by AI.">>),
   score |-> ValidScore(Get(feedback_json, "score", PyInt(GEMINI_DEFAULT_SCORE))),
   tone |-> Get(feedback_json, "tone", <<"Neutral">>),
   translation |-> Get(feedback_json, "translation",
                       <<"Content for 'translation' not provided by AI.">>),
   explanation |-> Get(feedback_json, "explanation",
                       <<"No explanation provided by AI.">>),
   rubric |-> ValidRubric(Get(feedback_json, "rubric",
                              [isDict |-> TRUE, scores |-> ZeroRubric])),
   grammar_suggestions |-> ValidSuggestions(Get(feedback_json, "grammar_suggestions",
                                                [isList |-> TRUE, items |-> <<>>])),
   new_words |-> ValidWords(Get(feedback_json, "new_words",
                                [isList |-> TRUE, items |-> <<>>]))]


\* An analyze_text that raises on an answer one of whose lists is not a list.
analyze_text_raising_on_non_list(text, out, feedback_json) ==
  CASE out = "json_object" ->
         IF \E key \in {"grammar_suggestions", "new_words"} :
              key \in DOMAIN feedback_json /\ ~feedback_json[key].isList
         THEN Exc
         ELSE Ret(ProcessedFeedback(feedback_json))
    [] out = "bad_json" -> Ret(get_error_fallback(text, "JSON parsing error from AI."))
    [] OTHER -> Ret(get_error_fallback(text, "API call/processing error"))

\* GeminiEngine.analyze_text: never raises.
analyze_text(text, out, feedback_json) ==
  CASE out = "json_object" -> Ret(ProcessedFeedback(feedback_json))
    [] out = "bad_json" -> Ret(get_error_fallback(text, "JSON parsing error from AI."))
    [] OTHER -> Ret(get_error_fallback(text, "API call/processing error"))

\* Module initialisation of feedback_engine.py: the Gemini engine is built
\* only when Mistral is not in use, and only with an API key (configured:
\* genai.configure and the model constructor did not raise).
InitGeminiEngine(use_mistral, api_key, configured) ==
  IF ~use_mistral THEN api_key /\ configured ELSE FALSE

\* analyze_entry, after Mistral was skipped or raised: the adapter tried next.
AdapterAfterMistral(use_mistral, engine) ==
  IF (~use_mistral \/ (use_mistral /\ engine)) /\ engine THEN "gemini" ELSE "mock"

\* A formatter that takes the score from the key fluency_score when the
\* key score is missing.
generate_feedback_reading_fluency_score(entry_text, analysis) ==
  [corrected |-> Get(analysis, "corrected", entry_text),
   rewritten |-> Get(analysis, "rewrite", entry_text),
   score |-> Get(analysis, "score", Get(analysis, "fluency_score", PyInt(0))),
   rubric |-> Get(analysis, "rubric", ZeroRubric),
   tone |-> Get(analysis, "tone", <<"Neutral">>),
   translation |-> Get(analysis, "translation", <<"Translation not available.">>),
   explanation |-> Get(analysis, "explanation",
                       <<"No detailed explanation available.">>),
   grammar_suggestions |-> Get(analysis, "grammar_suggestions", <<>>),
   new_words |-> Get(analysis, "new_words", <<>>)]

\* generate_feedback: the keys of the response, with their defaults.
generate_feedback(entry_text, analysis) ==
  [corrected |-> Get(analysis, "corrected", entry_text),
   rewritten |-> Get(analysis, "rewrite", entry_text),
   score |-> Get(analysis, "score", PyInt(0)),
   rubric |-> Get(analysis, "rubric", ZeroRubric),
   tone |-> Get(analysis, "tone", <<"Neutral">>),
   translation |-> Get(analysis, "translation", <<"Translation not available.">>),
   explanation |-> Get(analysis, "explanation",
                       <<"No detailed explanation available.">>),
   grammar_suggestions |-> Get(analysis, "grammar_suggestions", <<>>),
   new_words |-> Get(analysis, "new_words", <<>>)]

(***************************************************************************)
(* State.                                                                  *)
(***************************************************************************)
VARIABLES
  feedback_engine, \* the engine the router injects into the service
  word_ai_cache,   \* the table word_ai_cache: key -> row or NoRow
  nextId,          \* ids handed out so far (rows and uuid4 values)
  genCount,        \* generation calls made so far
  calls,           \* service calls begun so far
  call,            \* per caller: the running get_or_create call
  prev,            \* per caller: its last completed call
  foreign,         \* per caller: another caller wrote the store since then
  USE_MISTRAL,     \* config.USE_MISTRAL
  GEMINI_API_KEY,  \* config.GEMINI_API_KEY is set
  gemini_ai_engine,\* feedback_engine.gemini_ai_engine is not None
  gemini_backend,  \* the Gemini service: "healthy" or "down"
  analysis,        \* the running analyze_entry call
  enrichment,      \* the running FeedbackEngine.generate_word_enrichment_details call
  validation,      \* a decoded Gemini answer and what analyze_text made of it
  ondemand,        \* the on-demand calls made so far and the last of them
  server,          \* the POST /log-entry request being served
  deps,            \* app.dependencies: the engine singletons and the last resolution
  v2,              \* ai_enrichment_service_v2: the vocabulary item and the last call
  norm,            \* a normalize_language call: its input and what it returned
  perfield         \* a per-field generate_word_enrichment_details call

svars == <<feedback_engine, word_ai_cache, nextId, genCount, calls, call, prev, foreign>>
ovars == <<USE_MISTRAL, GEMINI_API_KEY, gemini_ai_engine, gemini_backend, analysis, enrichment>>
xvars == <<validation, ondemand, server, deps, v2, norm, perfield>>
vars == <<svars, ovars, xvars>>

NoRaw == [absent |-> TRUE]

IdleAnalysis ==
  [pc |-> "idle", text |-> <<>>, language |-> "en", attempts |-> <<>>,
   mistral |-> "none", gemini |-> "none", feedback_json |-> NoRaw,
   outcome |-> "none", result |-> NoDict]

IdleEnrichment ==
  [pc |-> "idle", api |-> "none", language |-> "en", raised |-> FALSE, result |-> NoDict]

IdleValidation ==
  [pc |-> "idle", text |-> <<>>, out |-> "none", feedback_json |-> NoRaw,
   result |-> NoDict]

InitValidationIdle == validation = IdleValidation

\* No on-demand call has been made.
IdleOnDemand ==
  [calls |-> 0, gens |-> 0, op |-> "none", word |-> "", language |-> "en",
   engine |-> Ret(NoDict), status |-> 0, detail |-> <<>>, result |-> NoResult]

\* No POST /log-entry has been answered.
IdleServer ==
  [pc |-> "idle", saves |-> 0, entry_data |-> NoRow, stored |-> FALSE,
   status |-> 0, feedback_response |-> NoResult]

\* app/dependencies.py at import: both singletons are None and no request
\* has resolved its dependencies.
IdleDeps ==
  [requests |-> 0, _gemini_engine_instance |-> FALSE,
   _feedback_engine_instance |-> FALSE, outcome |-> "none", constructed_at |-> 0]

InitOnDemandIdle == ondemand = IdleOnDemand /\ server = IdleServer /\ deps = IdleDeps

InitV2Idle == v2 = IdleV2

InitNormIdle == norm = IdleNorm /\ perfield = IdlePerField

\* The service is exercised with the entry analysis at rest.
InitOrchestratorIdle ==
  /\ USE_MISTRAL = TRUE
  /\ GEMINI_API_KEY = FALSE
  /\ gemini_ai_engine = FALSE
  /\ gemini_backend = "down"
  /\ analysis = IdleAnalysis
  /\ enrichment = IdleEnrichment

\* The (item_id, user_id, language) triples callers send.
Requests ==
  { <<"i1", "u1", "en">>, <<"i1", "u1", "es">>, <<"i1", "u2", "en">>,
    <<"i0", "u1", "en">>, <<"i3", "u1", "en">>, <<"i2", "u2", "es">> }

IdleCall ==
  [pc |-> "idle", item |-> "i0", user |-> "u1", language |-> "en",
   lookups |-> 0, gens |-> 0, writes |-> 0, readFailed |-> FALSE,
   overlapped |-> FALSE, disturbed |-> FALSE,
   found |-> NoRow, engineRaised |-> FALSE, pending |-> NoDict, saved |-> "none",
   status |-> 0, detail |-> "", result |-> NoResult]

NoPrev == [absent |-> TRUE]

\* A row written before this deployment: usable, or one that can no
\* longer be converted into a response.
LegacyRow(item_id, language, v) ==
  [id |-> <<"db", 0>>, word_vocabulary_id |-> item_id, language |-> language,
   data |-> [f \in WordAiCacheFields |-> v]]

Init ==
  /\ feedback_engine \in Engines
  /\ \E first \in {NoRow, LegacyRow("i1", "en", Legacy), LegacyRow("i1", "en", Corrupt)} :
       word_ai_cache = [k \in Keys |-> IF k = <<"i1", "en">> THEN first ELSE NoRow]
  /\ nextId = 0
  /\ genCount = 0
  /\ calls = 0
  /\ call = [c \in Callers |-> IdleCall]
  /\ prev = [c \in Callers |-> NoPrev]
  /\ foreign = [c \in Callers |-> FALSE]
  /\ InitOrchestratorIdle
  /\ InitValidationIdle
  /\ InitOnDemandIdle
  /\ InitV2Idle
  /\ InitNormIdle

(***************************************************************************)
(* get_or_create_enriched_details_service                                  *)
(***************************************************************************)
\* The checks on the fetched item without the comparison of the languages.
PreconditionFailure_without_language_check(vocab_item, language) ==
  IF vocab_item = NoItem THEN 404
  ELSE IF vocab_item.word = "" THEN 500
  ELSE 0

\* The three checks on the fetched item: the status raised, 0 when none is.
PreconditionFailure(vocab_item, language) ==
  IF vocab_item = NoItem THEN 404
  ELSE IF vocab_item.language # language THEN 400
  ELSE IF vocab_item.word = "" THEN 500
  ELSE 0

PreconditionDetail(st) ==
  CASE st = 404 -> "Vocabulary item not found or you do not have permission to access it."
    [] st = 400 -> "The requested language does not match the language of the stored vocabulary item."
    [] OTHER    -> "Vocabulary item data is incomplete (missing word/term)."

GenerationErrorDetail == "Failed to generate or cache AI enrichment"

Raise(cl, st, detail) ==
  [cl EXCEPT !.pc = "done", !.status = st, !.detail = detail, !.result = NoResult]

Return200(cl, response) ==
  [cl EXCEPT !.pc = "done", !.status = 200, !.result = response]

\* What a caller remembers of a completed call.
Completed(cl) ==
  [item |-> cl.item, user |-> cl.user, language |-> cl.language,
   status |-> cl.status, result |-> cl.result]

\* foreign after a step of caller c: c's flag restarts when its call
\* completes, and the others' are raised when c changed the store.
Since(c, changed) ==
  [d \in Callers |->
     IF d = c THEN (IF call'[c].pc = "done" THEN FALSE ELSE foreign[c])
     ELSE foreign[d] \/ changed]

\* The call is made (the previous answer, if any, has been received).
Begin(c) ==
  /\ call[c].pc \in {"idle", "done"}
  /\ calls < MaxCalls
  /\ \E r \in Requests :
       call' = [call EXCEPT ![c] =
                  [IdleCall EXCEPT !.pc = "fetch", !.item = r[1], !.user = r[2],
                                   !.language = r[3],
                                   !.overlapped = \E d \in Callers \ {c} :
                                                    call[d].pc \notin {"idle", "done"}]]
  /\ prev' = [prev EXCEPT ![c] = IF call[c].pc = "done" THEN Completed(call[c]) ELSE @]
  /\ calls' = calls + 1
  /\ UNCHANGED <<feedback_engine, word_ai_cache, nextId, genCount, foreign>>
  /\ UNCHANGED <<ovars, xvars>>

\* 1. the item is fetched and checked.
FetchItem(c) ==
  /\ call[c].pc = "fetch"
  /\ \E dbOk \in BOOLEAN :
       LET cl == [call[c] EXCEPT !.readFailed = @ \/ ~dbOk, !.disturbed = foreign[c]]
           vocab_item == fetch_vocabulary_item_by_id_and_user(cl.item, cl.user, dbOk)
           st == PreconditionFailure(vocab_item, cl.language)
       IN  call' = [call EXCEPT ![c] =
                      IF st # 0 THEN Raise(cl, st, PreconditionDetail(st))
                      ELSE [cl EXCEPT !.pc = "lookup"]]
  /\ foreign' = Since(c, FALSE)
  /\ UNCHANGED <<feedback_engine, word_ai_cache, nextId, genCount, calls, prev>>
  /\ UNCHANGED <<ovars, xvars>>

\* A lookup that treats every answer of the cache as a miss.
AfterLookup_regenerating(cl, cached_enrichment) == [cl EXCEPT !.pc = "generate"]

\* if cached_enrichment: return the response built from it, unless the
\* response model rejects it.
AfterLookup(cl, cached_enrichment) ==
  LET resp == IF cached_enrichment = NoRow THEN Exc
              ELSE EnrichedWordDetailsResponse(cached_enrichment.id, cached_enrichment)
  IN  IF cached_enrichment # NoRow /\ ~resp.raised
      THEN Return200(cl, resp.value)
      ELSE [cl EXCEPT !.pc = "generate"]

\* 2. the cache is read: a row that converts is returned, anything else is
\*    a miss.
CacheLookup(c) ==
  /\ call[c].pc = "lookup"
  /\ \E dbOk \in BOOLEAN :
       LET cl == [call[c] EXCEPT !.lookups = @ + 1, !.readFailed = @ \/ ~dbOk,
                                 !.disturbed = foreign[c],
                                 !.found = word_ai_cache[<<call[c].item, call[c].language>>]]
           cached == fetch_word_ai_cache_entry(word_ai_cache, cl.item, cl.language, dbOk)
       IN  call' = [call EXCEPT ![c] = AfterLookup(cl, cached)]
  /\ foreign' = Since(c, FALSE)
  /\ UNCHANGED <<feedback_engine, word_ai_cache, nextId, genCount, calls, prev>>
  /\ UNCHANGED <<ovars, xvars>>

\* 3. the engine is called and the cache model is built from its dict.
Generate(c) ==
  /\ call[c].pc = "generate"
  /\ \E out \in EngineOutcomes(feedback_engine) :
       LET g == genCount + 1
           ai_data == EngineCall(feedback_engine, out, g, call[c].language)
           cl == [call[c] EXCEPT !.gens = @ + 1, !.disturbed = foreign[c],
                                 !.engineRaised = ai_data.raised]
           d == call_ai_for_word_enrichment(ai_data)
           m == BuildCacheCreateModel(cl.item, cl.language, d)
       IN  call' = [call EXCEPT ![c] =
                      IF m.raised
                      THEN Raise(cl, 500, GenerationErrorDetail)
                      ELSE [cl EXCEPT !.pc = "save", !.pending = m.value]]
  /\ genCount' = genCount + 1
  /\ foreign' = Since(c, FALSE)
  /\ UNCHANGED <<feedback_engine, word_ai_cache, nextId, calls, prev>>
  /\ UNCHANGED <<ovars, xvars>>

\* A service that refuses to answer when the save returned None.
AfterSave_raising_on_none(cl, saved, transient_id) ==
  IF saved = NoRow THEN [cl EXCEPT !.pc = "done", !.status = 500, !.result = NoResult]
  ELSE [cl EXCEPT !.pc = "done", !.status = 200,
                  !.result = EnrichedWordDetailsResponse(saved.id, saved).value]

\* The response of a call whose save returned a row, or returned None.
AfterSave(cl, saved, transient_id) ==
  LET resp == IF saved = NoRow
              THEN EnrichedWordDetailsResponse(<<"transient", transient_id>>,
                                               model_dump_exclude_none(cl.pending))
              ELSE EnrichedWordDetailsResponse(saved.id, saved)
  IN  IF resp.raised THEN Raise(cl, 500, GenerationErrorDetail)
      ELSE Return200(cl, resp.value)

\* 4. the model is upserted and the response built.
Save(c) ==
  /\ call[c].pc = "save"
  /\ \E db \in DbWriteOutcomes :
       LET cl == [call[c] EXCEPT !.writes = @ + 1, !.saved = db, !.disturbed = foreign[c]]
           w == save_word_ai_cache_entry(word_ai_cache, model_dump(cl.pending),
                                         nextId + 1, db)
       IN  /\ word_ai_cache' = w.cache
           /\ call' = [call EXCEPT ![c] = AfterSave(cl, w.saved, nextId + 1)]
           /\ foreign' = Since(c, w.cache # word_ai_cache)
  /\ nextId' = nextId + 1
  /\ UNCHANGED <<feedback_engine, genCount, calls, prev>>
  /\ UNCHANGED <<ovars, xvars>>

Next ==
  \E c \in Callers :
    \/ Begin(c)
    \/ FetchItem(c)
    \/ CacheLookup(c)
    \/ Generate(c)
    \/ Save(c)

Spec == Init /\ [][Next]_vars

(***************************************************************************)
(* The on-demand operations of the service: generate_more_examples,        *)
(* explain_like_i_am_five and generate_mini_quiz, each one call of the     *)
(* engine, run next to the get_or_create calls of one caller.              *)
(***************************************************************************)
MaxOnDemandCalls == 2

Raised(msg) == [raised |-> TRUE, value |-> msg]
AI_DOWN == "AI Down"
NoQuiz == [absent |-> TRUE]
Quiz(g, questions) == [quiz_title |-> Content(g), questions |-> questions]

\* What the Gemini engine hands to FeedbackEngine: a text it could use, no
\* text, or an exception; for the quiz also an object whose questions are
\* all malformed.
GeminiOnDemandOutcomes(op) ==
  IF op = "mini_quiz" THEN {"text", "empty", "raises", "malformed_questions"}
  ELSE {"text", "empty", "raises"}

\* FeedbackEngine.generate_additional_examples: [] when Gemini gave nothing
\* or raised.
FeedbackEngine_generate_additional_examples(gemini, g) ==
  IF gemini = "text" THEN Ret(<<Content(g)>>) ELSE Ret(<<>>)

\* FeedbackEngine.generate_eli5_explanation: a fixed sentence when Gemini
\* gave nothing or raised.
FeedbackEngine_generate_eli5_explanation(gemini, g) ==
  CASE gemini = "text" -> Ret(<<Content(g)>>)
    [] gemini = "empty" -> Ret(<<"Could not generate an explanation at this time.">>)
    [] OTHER -> Ret(<<"Error generating explanation.">>)

\* FeedbackEngine.generate_quiz: None unless a question could be parsed.
FeedbackEngine_generate_quiz(gemini, g) ==
  IF gemini = "text" THEN Ret(Quiz(g, <<Content(g)>>)) ELSE Ret(NoQuiz)

\* The engine of the service's tests: the value the test gave it, or the
\* exception.
TestOnDemandOutcomes(op) ==
  IF op = "mini_quiz" THEN {"returns", "empty", "no_questions", "raises"}
  ELSE {"returns", "empty", "raises"}

TestEngine_on_demand(op, out, g) ==
  CASE out = "raises" -> Raised(AI_DOWN)
    [] out = "empty" -> IF op = "mini_quiz" THEN Ret(NoQuiz) ELSE Ret(<<>>)
    [] out = "no_questions" -> Ret(Quiz(g, <<>>))
    [] OTHER -> IF op = "mini_quiz" THEN Ret(Quiz(g, <<Content(g)>>))
                ELSE Ret(<<Content(g)>>)

OnDemandOutcomes(engine, op) ==
  IF engine = "FeedbackEngine" THEN GeminiOnDemandOutcomes(op)
  ELSE TestOnDemandOutcomes(op)

OnDemandEngineCall(engine, op, out, g) ==
  IF engine = "FeedbackEngine"
  THEN CASE op = "more_examples" -> FeedbackEngine_generate_additional_examples(out, g)
         [] op = "eli5" -> FeedbackEngine_generate_eli5_explanation(out, g)
         [] OTHER -> FeedbackEngine_generate_quiz(out, g)
  ELSE TestEngine_on_demand(op, out, g)

OnDemandAnswer(st, detail, result) ==
  [status |-> st, detail |-> detail, result |-> result]

\* A service that answers with whatever list the engine returned.
generate_more_examples_unchecked(ai_generated_examples) ==
  IF ai_generated_examples.raised
  THEN OnDemandAnswer(500, <<"Failed to generate more examples:",
                             ai_generated_examples.value>>, NoResult)
  ELSE OnDemandAnswer(200, <<>>, ai_generated_examples.value)

\* generate_more_examples, from the outcome of the engine call on.
generate_more_examples(ai_generated_examples) ==
  IF ai_generated_examples.raised
  THEN OnDemandAnswer(500, <<"Failed to generate more examples:",
                             ai_generated_examples.value>>, NoResult)
  ELSE IF ai_generated_examples.value = <<>>
  THEN OnDemandAnswer(500, <<"AI engine failed to generate more examples.">>, NoResult)
  ELSE OnDemandAnswer(200, <<>>, ai_generated_examples.value)

\* explain_like_i_am_five, from the outcome of the engine call on.
explain_like_i_am_five(ai_explanation) ==
  IF ai_explanation.raised
  THEN OnDemandAnswer(500, <<"Failed to generate ELI5 explanation:",
                             ai_explanation.value>>, NoResult)
  ELSE IF ai_explanation.value = <<>>
  THEN OnDemandAnswer(500, <<"AI engine failed to generate ELI5 explanation.">>, NoResult)
  ELSE OnDemandAnswer(200, <<>>, ai_explanation.value)

\* generate_mini_quiz, from the outcome of the engine call on.
generate_mini_quiz(quiz_data) ==
  IF quiz_data.raised
  THEN OnDemandAnswer(500, <<"Failed to generate mini quiz:", quiz_data.value>>, NoResult)
  ELSE IF quiz_data.value = NoQuiz \/ quiz_data.value.questions = <<>>
  THEN OnDemandAnswer(500, <<"AI engine failed to generate a mini quiz.">>, NoResult)
  ELSE OnDemandAnswer(200, <<>>, quiz_data.value)

\* The (word, language) pair of the on-demand requests: the word of item i1.
OnDemandRequests == {<<"flabbergasted", "en">>}

\* A service that stores what it generated on demand under the key of the
\* first item.
CacheAfterOnDemand_storing(cache, answer) ==
  IF answer.status = 200
  THEN [cache EXCEPT ![<<"i1", "en">>] = LegacyRow("i1", "en", Legacy)]
  ELSE cache

\* The table word_ai_cache after an on-demand call: none of the three
\* functions calls a function of the cache, the table is as it was.
CacheAfterOnDemand(cache, answer) == cache

\* The call as it is remembered: the request, what the engine did and the
\* answer.
OnDemandRecord(op, request, g, r, answer) ==
  [calls |-> ondemand.calls + 1, gens |-> g, op |-> op,
   word |-> request[1], language |-> request[2],
   engine |-> r,
   status |-> answer.status, detail |-> answer.detail, result |-> answer.result]

GenerateMoreExamples ==
  /\ ondemand.calls < MaxOnDemandCalls
  /\ \E request \in OnDemandRequests,
        out \in OnDemandOutcomes(feedback_engine, "more_examples") :
       LET g == ondemand.gens + 1
           r == OnDemandEngineCall(feedback_engine, "more_examples", out, g)
           answer == generate_more_examples(r)
       IN  /\ ondemand' = OnDemandRecord("more_examples", request, g, r, answer)
           /\ word_ai_cache' = CacheAfterOnDemand(word_ai_cache, answer)
  /\ UNCHANGED <<feedback_engine, nextId, genCount, calls, call, prev, foreign>>
  /\ UNCHANGED <<ovars, validation, server, deps, v2, norm, perfield>>

ExplainLikeIAmFive ==
  /\ ondemand.calls < MaxOnDemandCalls
  /\ \E request \in OnDemandRequests, out \in OnDemandOutcomes(feedback_engine, "eli5") :
       LET g == ondemand.gens + 1
           r == OnDemandEngineCall(feedback_engine, "eli5", out, g)
           answer == explain_like_i_am_five(r)
       IN  /\ ondemand' = OnDemandRecord("eli5", request, g, r, answer)
           /\ word_ai_cache' = CacheAfterOnDemand(word_ai_cache, answer)
  /\ UNCHANGED <<feedback_engine, nextId, genCount, calls, call, prev, foreign>>
  /\ UNCHANGED <<ovars, validation, server, deps, v2, norm, perfield>>

GenerateMiniQuiz ==
  /\ ondemand.calls < MaxOnDemandCalls
  /\ \E request \in OnDemandRequests,
        out \in OnDemandOutcomes(feedback_engine, "mini_quiz") :
       LET g == ondemand.gens + 1
           r == OnDemandEngineCall(feedback_engine, "mini_quiz", out, g)
           answer == generate_mini_quiz(r)
       IN  /\ ondemand' = OnDemandRecord("mini_quiz", request, g, r, answer)
           /\ word_ai_cache' = CacheAfterOnDemand(word_ai_cache, answer)
  /\ UNCHANGED <<feedback_engine, nextId, genCount, calls, call, prev, foreign>>
  /\ UNCHANGED <<ovars, validation, server, deps, v2, norm, perfield>>

NextOnDemand ==
  \/ Begin("c1")
  \/ FetchItem("c1")
  \/ CacheLookup("c1")
  \/ Generate("c1")
  \/ Save("c1")
  \/ GenerateMoreExamples
  \/ ExplainLikeIAmFive
  \/ GenerateMiniQuiz

SpecOnDemand == Init /\ [][NextOnDemand]_vars

(***************************************************************************)
(* analyze_entry and FeedbackEngine.generate_word_enrichment_details        *)
(***************************************************************************)
InitService ==
  /\ feedback_engine = "FeedbackEngine"
  /\ word_ai_cache = [k \in Keys |-> NoRow]
  /\ nextId = 0
  /\ genCount = 0
  /\ calls = 0
  /\ call = [c \in Callers |-> IdleCall]
  /\ prev = [c \in Callers |-> NoPrev]
  /\ foreign = [c \in Callers |-> FALSE]

InitOrch ==
  /\ InitService
  /\ USE_MISTRAL \in BOOLEAN
  /\ GEMINI_API_KEY \in BOOLEAN
  /\ \E configured \in BOOLEAN :
       gemini_ai_engine = InitGeminiEngine(USE_MISTRAL, GEMINI_API_KEY, configured)
  /\ gemini_backend \in {"healthy", "down"}
  /\ analysis = IdleAnalysis
  /\ enrichment = IdleEnrichment
  /\ InitValidationIdle
  /\ InitOnDemandIdle
  /\ InitV2Idle
  /\ InitNormIdle

Returned(an, result) ==
  [an EXCEPT !.pc = "done", !.outcome = "returned", !.result = result]

\* The exception leaves analyze_entry.
AfterMistral_propagating(an, out, r) ==
  IF r.raised
  THEN [an EXCEPT !.pc = "done", !.mistral = "raised", !.outcome = "raised"]
  ELSE Returned([an EXCEPT !.mistral = out], r.value)

\* An orchestrator that calls Mistral again when it raised.
AfterMistral_retrying(an, out, r) ==
  IF r.raised
  THEN [an EXCEPT !.pc = "mistral", !.mistral = "raised"]
  ELSE Returned([an EXCEPT !.mistral = out], r.value)

\* The inner try around the Mistral call: its result is returned, its
\* exception is logged and the next adapter chosen.
AfterMistral(an, out, r) ==
  IF r.raised
  THEN [an EXCEPT !.pc = AdapterAfterMistral(USE_MISTRAL, gemini_ai_engine),
                  !.mistral = "raised"]
  ELSE Returned([an EXCEPT !.mistral = out], r.value)

\* analyze_entry is called.
AnalyzeBegin ==
  /\ analysis.pc = "idle"
  /\ \E text \in Texts, language \in Languages :
       analysis' = [IdleAnalysis EXCEPT
                      !.text = text, !.language = language,
                      !.pc = IF USE_MISTRAL THEN "mistral"
                             ELSE AdapterAfterMistral(USE_MISTRAL, gemini_ai_engine)]
  /\ UNCHANGED <<USE_MISTRAL, GEMINI_API_KEY, gemini_ai_engine, gemini_backend, enrichment>>
  /\ UNCHANGED <<svars, xvars>>

\* if USE_MISTRAL: mistral_engine.analyze_entry(text, language)
TryMistral ==
  /\ analysis.pc = "mistral"
  /\ \E out \in MistralOutcomes :
       \E fluency_score \in MistralScores(out), tone \in MistralTones(out) :
         LET an == [analysis EXCEPT !.attempts = Append(@, "mistral")]
             r == mistral_analyze_entry(an.text, an.language, out, fluency_score, tone)
         IN  analysis' = AfterMistral(an, out, r)
  /\ UNCHANGED <<USE_MISTRAL, GEMINI_API_KEY, gemini_ai_engine, gemini_backend, enrichment>>
  /\ UNCHANGED <<svars, xvars>>

BackendOutcomes(backend) ==
  IF backend = "healthy" THEN {"json_object"} ELSE {"bad_json", "api_error"}

\* await gemini_ai_engine.analyze_text(text, language)
TryGemini ==
  /\ analysis.pc = "gemini"
  /\ \E out \in BackendOutcomes(gemini_backend) :
       \E feedback_json \in IF out = "json_object" THEN SampledFeedback ELSE {NoRaw} :
         LET an == [analysis EXCEPT
                      !.attempts = Append(@, "gemini"),
                      !.gemini = IF out = "json_object" THEN "validated" ELSE "fallback",
                      !.feedback_json = feedback_json]
             r == analyze_text(an.text, out, feedback_json)
         IN  analysis' = IF r.raised THEN [an EXCEPT !.pc = "mock"]
                         ELSE Returned(an, r.value)
  /\ UNCHANGED <<USE_MISTRAL, GEMINI_API_KEY, gemini_ai_engine, gemini_backend, enrichment>>
  /\ UNCHANGED <<svars, xvars>>

\* return analyze_with_mock(text, language)
MockFallback ==
  /\ analysis.pc = "mock"
  /\ \E fluency_score \in MockScores, mock_rubric \in MockRubrics,
        tone \in possible_tones, selected_word \in MockQuotableWords(analysis.text),
        quoted \in MockQuotableWords(analysis.text) :
       analysis' = Returned([analysis EXCEPT !.attempts = Append(@, "mock")],
                            analyze_with_mock(analysis.text, analysis.language,
                                              fluency_score, mock_rubric, tone,
                                              selected_word, quoted))
  /\ UNCHANGED <<USE_MISTRAL, GEMINI_API_KEY, gemini_ai_engine, gemini_backend, enrichment>>
  /\ UNCHANGED <<svars, xvars>>

\* FeedbackEngine.generate_word_enrichment_details(term, language)
EnrichTerm ==
  /\ enrichment.pc = "idle"
  /\ \E api \in ApiOutcomes, language \in Languages :
       LET r == FeedbackEngine_generate_word_enrichment_details(
                  generate_word_enrichment_details_gemini(api, 1, language), language)
       IN  enrichment' = [pc |-> "done", api |-> api, language |-> language,
                          raised |-> r.raised, result |-> r.value]
  /\ UNCHANGED <<USE_MISTRAL, GEMINI_API_KEY, gemini_ai_engine, gemini_backend, analysis>>
  /\ UNCHANGED <<svars, xvars>>

NextOrch ==
  \/ AnalyzeBegin
  \/ TryMistral
  \/ TryGemini
  \/ MockFallback
  \/ EnrichTerm

SpecOrch == InitOrch /\ [][NextOrch]_vars

(***************************************************************************)
(* server.create_log_entry: POST /log-entry.  The handler awaits           *)
(* analyze_entry, builds the FeedbackResponse, saves the entry and answers *)
(* 201; an exception of save_entry is logged, any other one answers 500.   *)
(***************************************************************************)
\* pydantic's int: an int is taken as it is, a bool as the integer it is.
PydanticInt(v) == IF v[1] = "bool" THEN PyInt(v[2]) ELSE v

\* FeedbackResponse(**{...}) on the analysis: the score and the rubric
\* scores are integers from 0 to 100, or the model raises.
FeedbackResponse(entry_text, analysis_dict) ==
  LET d == generate_feedback(entry_text, analysis_dict)
  IN  IF /\ isinstance_int(d.score) /\ InPercentRange(d.score)
         /\ \A key \in RubricKeys :
              isinstance_int(d.rubric[key]) /\ InPercentRange(d.rubric[key])
      THEN Ret([d EXCEPT !.score = PydanticInt(@),
                         !.rubric = [key \in RubricKeys |-> PydanticInt(@[key])]])
      ELSE Exc

\* entry_data, the dict handed to save_entry.
EntryData(entry_text, language, feedback_response) ==
  [original_text |-> entry_text,
   language |-> language,
   corrected |-> feedback_response.corrected,
   rewrite |-> feedback_response.rewritten,
   score |-> feedback_response.score,
   tone |-> feedback_response.tone,
   translation |-> feedback_response.translation,
   explanation |-> feedback_response.explanation,
   rubric |-> feedback_response.rubric,
   grammar_suggestions |-> feedback_response.grammar_suggestions,
   new_words |-> feedback_response.new_words]

SaveOutcomes == {"saved", "raises"}

\* A handler that lets the exception of save_entry reach its outer clause.
AfterSaveEntry_failing_request(sv, db, feedback_response) ==
  IF db = "raises" THEN [sv EXCEPT !.pc = "responded", !.status = 500]
  ELSE [sv EXCEPT !.pc = "responded", !.stored = TRUE, !.status = 201,
                  !.feedback_response = feedback_response]

\* try: save_entry(entry_data) except Exception: log; return feedback_response
\* (the route's status code is 201).
AfterSaveEntry(sv, db, feedback_response) ==
  [sv EXCEPT !.pc = "responded", !.stored = (db = "saved"), !.status = 201,
             !.feedback_response = feedback_response]

\* The handler from the return of analyze_entry on.
CreateLogEntry ==
  /\ server.pc = "idle"
  /\ analysis.pc = "done"
  /\ \E db \in SaveOutcomes :
       LET r == FeedbackResponse(analysis.text, analysis.result)
       IN  server' =
             IF r.raised
             THEN [server EXCEPT !.pc = "responded", !.status = 500]
             ELSE AfterSaveEntry(
                    [server EXCEPT
                       !.saves = @ + 1,
                       !.entry_data = EntryData(analysis.text, analysis.language, r.value)],
                    db, r.value)
  /\ UNCHANGED <<svars, ovars, validation, ondemand, deps, v2, norm, perfield>>

NextServer ==
  \/ AnalyzeBegin
  \/ TryMistral
  \/ TryGemini
  \/ MockFallback
  \/ CreateLogEntry

SpecServer == InitOrch /\ [][NextServer]_vars

(***************************************************************************)
(* Engine start-up.  backend/feedback_engine.py builds its GeminiEngine    *)
(* while the module is imported (InitGeminiEngine, in InitOrch);           *)
(* app/dependencies.py builds the engines of the vocabulary routes inside  *)
(* the dependency functions, which FastAPI runs for every request.         *)
(***************************************************************************)
MaxRequests == 3

\* app.ai_engines.gemini_engine.GeminiEngine.__init__: raises ValueError
\* when GEMINI_API_KEY is not set, otherwise the engine is built.
AppGeminiEngine(api_key) == IF api_key THEN "built" ELSE "raises"

\* get_gemini_engine: the singleton is built on the first call that finds it
\* None; the constructor's exception leaves it None and reaches the request.
get_gemini_engine(d, api_key) ==
  IF d._gemini_engine_instance THEN [d EXCEPT !.outcome = "resolved"]
  ELSE IF AppGeminiEngine(api_key) = "built"
       THEN [d EXCEPT !._gemini_engine_instance = TRUE, !.outcome = "resolved",
                      !.constructed_at = d.requests]
       ELSE [d EXCEPT !.outcome = "raised", !.constructed_at = d.requests]

\* get_feedback_engine(gemini_engine = Depends(get_gemini_engine)): runs only
\* when its own dependency resolved.
get_feedback_engine(d) ==
  IF d.outcome = "resolved" THEN [d EXCEPT !._feedback_engine_instance = TRUE] ELSE d

\* One request to a vocabulary route resolves Depends(get_feedback_engine).
ResolveFeedbackEngine ==
  /\ deps.requests < MaxRequests
  /\ deps' = get_feedback_engine(
               get_gemini_engine([deps EXCEPT !.requests = @ + 1], GEMINI_API_KEY))
  /\ UNCHANGED <<svars, ovars, validation, ondemand, server, v2, norm, perfield>>

\* Both start-up paths of one process: entry analysis with the engine built
\* at import, and requests resolving the engines of the vocabulary routes.
NextStartup ==
  \/ AnalyzeBegin
  \/ TryMistral
  \/ TryGemini
  \/ MockFallback
  \/ ResolveFeedbackEngine

SpecStartup == InitOrch /\ [][NextStartup]_vars

(***************************************************************************)
(* Cancellation.  analyze_entry suspends only at                           *)
(* `await gemini_ai_engine.analyze_text(...)`, which itself suspends at    *)
(* `await self.model.generate_content_async(...)`; the Mistral and mock    *)
(* adapters are synchronous.  Cancelling the task throws                   *)
(* asyncio.CancelledError into the coroutine at that await.                *)
(***************************************************************************)
except_Exception_handling_cancellation(exc) == TRUE

\* `except Exception`: asyncio.CancelledError derives from BaseException
\* (Python 3.8 and later) and is not handled by the clause.
except_Exception(exc) == exc # "CancelledError"

\* CancelledError at the await of analyze_text: a clause that handled it
\* would answer with the error fallback (gemini_engine.py:180-183); as no
\* clause of analyze_text or analyze_entry does, it leaves analyze_entry.
Cancelled(an) ==
  IF except_Exception("CancelledError")
  THEN Returned([an EXCEPT !.gemini = "cancelled"],
                get_error_fallback(an.text, "API call/processing error"))
  ELSE [an EXCEPT !.gemini = "cancelled", !.pc = "done", !.outcome = "cancelled"]

\* analyze_text is called and suspends at the API call.
StartGemini ==
  /\ analysis.pc = "gemini"
  /\ analysis' = [analysis EXCEPT !.attempts = Append(@, "gemini"), !.pc = "awaiting"]
  /\ UNCHANGED <<USE_MISTRAL, GEMINI_API_KEY, gemini_ai_engine, gemini_backend, enrichment>>
  /\ UNCHANGED <<svars, xvars>>

\* The API call completes and analyze_text runs to its return.
FinishGemini ==
  /\ analysis.pc = "awaiting"
  /\ \E out \in BackendOutcomes(gemini_backend) :
       \E feedback_json \in IF out = "json_object" THEN SampledFeedback ELSE {NoRaw} :
         LET an == [analysis EXCEPT
                      !.gemini = IF out = "json_object" THEN "validated" ELSE "fallback",
                      !.feedback_json = feedback_json]
             r == analyze_text(an.text, out, feedback_json)
         IN  analysis' = IF r.raised THEN [an EXCEPT !.pc = "mock"]
                         ELSE Returned(an, r.value)
  /\ UNCHANGED <<USE_MISTRAL, GEMINI_API_KEY, gemini_ai_engine, gemini_backend, enrichment>>
  /\ UNCHANGED <<svars, xvars>>

\* The caller cancels the task while the API call is in flight.
CancelAnalysis ==
  /\ analysis.pc = "awaiting"
  /\ analysis' = Cancelled(analysis)
  /\ UNCHANGED <<USE_MISTRAL, GEMINI_API_KEY, gemini_ai_engine, gemini_backend, enrichment>>
  /\ UNCHANGED <<svars, xvars>>

NextCancel ==
  \/ AnalyzeBegin
  \/ TryMistral
  \/ StartGemini
  \/ FinishGemini
  \/ CancelAnalysis
  \/ MockFallback

SpecCancel == InitOrch /\ [][NextCancel]_vars

(***************************************************************************)
(* The v2 enrichment service: successive calls for one vocabulary item, by *)
(* its owner or by another user.                                           *)
(***************************************************************************)
\* fetch_user_vocabulary_item_by_id(user_id, item_id): the row of the item
\* when the user owns it, None otherwise.
fetch_user_vocabulary_item_by_id(item, owner) == IF owner THEN item ELSE NoItem

InitV2 ==
  /\ InitService
  /\ InitOrchestratorIdle
  /\ InitValidationIdle
  /\ InitOnDemandIdle
  /\ InitNormIdle
  /\ \E r \in V2Rows : v2 = [IdleV2 EXCEPT !.item = r, !.before = r]

GetOrCreateV2 ==
  /\ v2.calls < MaxV2Calls
  /\ \E owner \in BOOLEAN, out \in V2EngineOutcomes, db \in V2UpdateOutcomes :
       v2' = get_or_create_enriched_details_service_v2(
               v2, fetch_user_vocabulary_item_by_id(v2.item, owner), out, db)
  /\ UNCHANGED <<svars, ovars, validation, ondemand, server, deps, norm, perfield>>

NextV2 == GetOrCreateV2

SpecV2 == InitV2 /\ [][NextV2]_vars

(***************************************************************************)
(* normalize_language on the keys of the table, on their upper-case and    *)
(* padded spellings, and on strings the table does not know.               *)
(***************************************************************************)
upper(str) ==
  [i \in 1..Len(str) |->
     IF \E u \in DOMAIN UpperToLower : UpperToLower[u] = str[i]
     THEN CHOOSE u \in DOMAIN UpperToLower : UpperToLower[u] = str[i]
     ELSE str[i]]

UnknownLanguages == {<<>>, <<" ">>, <<"x", "x">>, <<"K", "l", "i", "n", "g", "o", "n">>}

LanguageInputs ==
  LanguageKeys \cup {upper(k) : k \in LanguageKeys}
    \cup {<<" ">> \o k \o <<" ">> : k \in LanguageKeys} \cup UnknownLanguages

InitNormalize ==
  /\ InitService
  /\ InitOrchestratorIdle
  /\ InitValidationIdle
  /\ InitOnDemandIdle
  /\ InitV2Idle
  /\ perfield = IdlePerField
  /\ \E language_input \in LanguageInputs, to_code \in BOOLEAN :
       norm = [IdleNorm EXCEPT !.pc = "called", !.language_input = language_input,
                               !.to_code = to_code]

\* The call, and a second call on what the first returned.
NormalizeLanguage ==
  /\ norm.pc = "called"
  /\ norm' = [norm EXCEPT
                !.pc = "returned",
                !.result = normalize_language(norm.language_input, norm.to_code),
                !.again = normalize_language(
                            normalize_language(norm.language_input, norm.to_code),
                            norm.to_code)]
  /\ UNCHANGED <<svars, ovars, validation, ondemand, server, deps, v2, perfield>>

NextNormalize == NormalizeLanguage

SpecNormalize == InitNormalize /\ [][NextNormalize]_vars

(***************************************************************************)
(* One per-field generate_word_enrichment_details call under every         *)
(* configuration of the engines, with any of its generation calls failing. *)
(***************************************************************************)
PerFieldEnrich ==
  /\ perfield.pc = "idle"
  /\ \E outs \in [PromptFields -> {"ok", "raises", "bad_json", "null"}] :
       /\ \A f \in PromptFields : outs[f] \in FieldCallOutcomes(f)
       /\ perfield' = [pc |-> "done", outs |-> outs,
                       enrichment_data |->
                         generate_word_enrichment_details(USE_MISTRAL, gemini_ai_engine,
                                                          outs, 1)]
  /\ UNCHANGED <<svars, ovars, validation, ondemand, server, deps, v2, norm>>

NextPerField == PerFieldEnrich

SpecPerField == InitOrch /\ [][NextPerField]_vars

(***************************************************************************)
(* GeminiEngine.analyze_text on a decoded answer: the answer is any JSON   *)
(* object of RawFeedback, or a JSON array, on which .get raises and the    *)
(* except clause answers with the error fallback.                          *)
(***************************************************************************)
DecodedOutcomes == {"json_object", "json_array"}
ValidatedTexts == {<<>>, <<"goed", "store">>}

InitValidate ==
  /\ InitService
  /\ InitOrchestratorIdle
  /\ InitOnDemandIdle
  /\ InitV2Idle
  /\ InitNormIdle
  /\ \E text \in ValidatedTexts, out \in DecodedOutcomes :
       \E feedback_json \in IF out = "json_object" THEN RawFeedback ELSE {NoRaw} :
         validation = [pc |-> "decoded", text |-> text, out |-> out,
                       feedback_json |-> feedback_json, result |-> NoDict]

ValidateAnswer ==
  /\ validation.pc = "decoded"
  /\ validation' = [validation EXCEPT
                      !.pc = "validated",
                      !.result = analyze_text(validation.text, validation.out,
                                              validation.feedback_json).value]
  /\ UNCHANGED <<svars, ovars, ondemand, server, deps, v2, norm, perfield>>

NextValidate == ValidateAnswer

SpecValidate == InitValidate /\ [][NextValidate]_vars

(***************************************************************************)
(* Properties of the entry analysis and of the enrichment orchestrator.    *)
(***************************************************************************)
AnalysisDone == analysis.pc = "done"

\* What generate_feedback hands to the endpoint for the finished analysis.
Feedback == generate_feedback(analysis.text, analysis.result)

\* C1 (as stated): when Mistral fails and Gemini is able to answer (its key
\* is configured and the service is healthy), Gemini is attempted after
\* Mistral and the result is Gemini's validated output.
C1_MistralFailureFallsBackToGemini ==
  (AnalysisDone /\ analysis.mistral = "raised" /\ GEMINI_API_KEY
     /\ gemini_backend = "healthy")
    => /\ analysis.attempts = <<"mistral", "gemini">>
       /\ analysis.result = ProcessedFeedback(analysis.feedback_json)

\* No real adapter produced the result of the finished analysis.
EveryAnalysisAdapterFailed ==
  AnalysisDone /\ analysis.mistral # "transformers" /\ analysis.gemini # "validated"

\* The Gemini call of the enrichment produced no usable object.
EveryEnrichmentAdapterFailed ==
  enrichment.pc = "done" /\ enrichment.api \in {"no_content", "bad_json", "json_array"}

ExplanationSignalsFailure(explanation) == explanation[1] = ERROR_EXPLANATION

ExplanationMarkedMock(explanation) == explanation[1] = "[Mock Explanation]"

\* C2 (as stated): when every adapter fails the orchestrator returns a
\* result whose explanation (entry analysis) or cultural note (enrichment)
\* signals that generation failed.
C2_AllAdaptersFailedSignalsFailure ==
  /\ EveryAnalysisAdapterFailed =>
       /\ analysis.outcome = "returned"
       /\ ExplanationSignalsFailure(Feedback.explanation)
  /\ EveryEnrichmentAdapterFailed =>
       /\ ~enrichment.raised
       /\ SignalsFailure(enrichment.result.ai_cultural_note)

\* C2 (amended): when every adapter fails the orchestrator returns a result;
\* the cultural note of the enrichment signals the failure, and so does the
\* explanation of the analysis when the Gemini call itself failed, while the
\* mock results of analyze_with_mock and of the Mistral module carry an
\* explanation marked as mock and no failure message.
C2_AllAdaptersFailedReturnsResult ==
  /\ EveryAnalysisAdapterFailed =>
       /\ analysis.outcome = "returned"
       /\ analysis.result # NoDict
       /\ IF analysis.gemini = "fallback"
          THEN ExplanationSignalsFailure(Feedback.explanation)
          ELSE /\ ExplanationMarkedMock(Feedback.explanation)
               /\ ~ExplanationSignalsFailure(Feedback.explanation)
  /\ EveryEnrichmentAdapterFailed =>
       /\ ~enrichment.raised
       /\ SignalsFailure(enrichment.result.ai_cultural_note)

\* Mistral raised, the mock answered, and the enrichment call failed too.
C2_Witness ==
  /\ EveryAnalysisAdapterFailed
  /\ analysis.attempts = <<"mistral", "mock">>
  /\ ExplanationMarkedMock(Feedback.explanation)
  /\ EveryEnrichmentAdapterFailed
  /\ enrichment.result.ai_cultural_note = NOTE_ENGINE_ERROR

\* The field contains the words of the text, in order and adjacent.
DerivedFrom(field, text) ==
  \E i \in 0..Len(field) :
    /\ i + Len(text) <= Len(field)
    /\ SubSeq(field, i + 1, i + Len(text)) = text

\* C3 (as stated): when both real adapters fail, the result has score 0,
\* corrected and rewritten fields equal to or derived from the text, and no
\* grammar suggestion, and nothing is raised.
C3_FailureResultIsPlaceholder ==
  EveryAnalysisAdapterFailed =>
    /\ analysis.outcome = "returned"
    /\ Feedback.score = PyInt(0)
    /\ DerivedFrom(Feedback.corrected, analysis.text)
    /\ DerivedFrom(Feedback.rewritten, analysis.text)
    /\ Feedback.grammar_suggestions = <<>>

\* C3 (amended): when both real adapters fail nothing is raised and the
\* result is one of three placeholders.  Gemini's error fallback: score 0,
\* corrected equal to the text, rewritten an error message, no suggestion.
\* The Mistral module's mock: score 0, corrected and rewritten derived from
\* the text, no suggestion.  analyze_with_mock: a score from 70 to 95,
\* corrected and rewritten derived from the text, and a suggestion quoting the
\* first three words whenever the text has more than three words.
C3_FailureResultByFallback ==
  EveryAnalysisAdapterFailed =>
    /\ analysis.outcome = "returned"
    /\ CASE analysis.gemini = "fallback" ->
              /\ Feedback.score = PyInt(0)
              /\ Feedback.corrected = analysis.text
              /\ Feedback.rewritten[1] = "Could not generate rewrite due to an error:"
              /\ Feedback.grammar_suggestions = <<>>
         [] analysis.mistral = "mock" ->
              /\ Feedback.score = PyInt(0)
              /\ DerivedFrom(Feedback.corrected, analysis.text)
              /\ DerivedFrom(Feedback.rewritten, analysis.text)
              /\ Feedback.grammar_suggestions = <<>>
         [] OTHER ->
              /\ Feedback.score \in {PyInt(n) : n \in MOCK_SCORE_MIN..MOCK_SCORE_MAX}
              /\ DerivedFrom(Feedback.corrected, analysis.text)
              /\ DerivedFrom(Feedback.rewritten, analysis.text)
              /\ (Feedback.grammar_suggestions = <<>>) <=> (Len(analysis.text) <= 3)
              /\ Len(analysis.text) > 3 =>
                   Feedback.grammar_suggestions[1].original = SubSeq(analysis.text, 1, 3)

\* Mistral raised on a text of more than six words and the mock answered
\* with two suggestions.
C3_Witness ==
  /\ EveryAnalysisAdapterFailed
  /\ analysis.mistral = "raised"
  /\ analysis.attempts = <<"mistral", "mock">>
  /\ Len(analysis.text) > 6
  /\ Len(Feedback.grammar_suggestions) = 2
  /\ Feedback.score = PyInt(MOCK_SCORE_MAX)

(***************************************************************************)
(* Properties of the enrichment cache service.                             *)
(***************************************************************************)
Done(c) == call[c].pc = "done"

\* The call passed the three checks on the item.
PassedPreconditions(c) == call[c].lookups > 0

\* C4 (as stated, for the enrichment service): a call that passed the checks
\* on the item always ends with a usable result; no failure of generation or
\* of the store reaches the caller as an error.
C4_BackendFailureNeverReachesCaller ==
  \A c \in Callers : (Done(c) /\ PassedPreconditions(c)) => call[c].status = 200

\* The same request as the caller's previous, completed one.
SameRequestAsPrevious(c) ==
  /\ prev[c] # NoPrev
  /\ prev[c].item = call[c].item
  /\ prev[c].user = call[c].user
  /\ prev[c].language = call[c].language

SecondCallRepeatsFirst(c) ==
  /\ call[c].status = prev[c].status
  /\ call[c].result = prev[c].result
  /\ call[c].gens = 0

PreviousWasStored(c) ==
  /\ prev[c] # NoPrev
  /\ prev[c].status = 200
  /\ prev[c].result.id[1] = "db"

IsFailurePlaceholder(data) == data["ai_example_sentences"] = EmptyList

\* C6 (as stated): no stored entry holds a generation-failure placeholder.
C6_NoPlaceholderCached ==
  \A k \in Keys :
    word_ai_cache[k] # NoRow => ~IsFailurePlaceholder(word_ai_cache[k].data)

SaveFailed(c) == call[c].saved \in {"fail", "lost"}

\* The ids held by rows of the store and by the other callers' answers.
IdsInUse(c) ==
  {word_ai_cache[k].id : k \in {x \in Keys : word_ai_cache[x] # NoRow}}
    \cup {call[d].result.id : d \in {x \in Callers \ {c} : call[x].result # NoResult}}
    \cup {prev[d].result.id : d \in {x \in Callers : prev[x] # NoPrev /\ prev[x].result # NoResult}}

\* C7: a call whose generation produced a cache model and whose write then
\* failed answers 200 with the generated fields under a fresh transient id.
C7_SaveFailureReturnsGenerated ==
  \A c \in Callers :
    (Done(c) /\ SaveFailed(c)) =>
      /\ call[c].status = 200
      /\ call[c].result.data = call[c].pending.data
      /\ call[c].result.word_vocabulary_id = call[c].item
      /\ call[c].result.language = call[c].language
      /\ call[c].result.id[1] = "transient"
      /\ call[c].result.id \notin IdsInUse(c)

C7_Witness ==
  \E c \in Callers :
    /\ Done(c) /\ call[c].saved = "fail" /\ call[c].gens = 1
    /\ call[c].status = 200
    /\ call[c].result.id[1] = "transient"
    /\ call[c].pending.data["cultural_note"][1] = "content"

\* Both callers asked for the key of item i1 at overlapping times, both
\* missed, and the cache held no row for the key when they started.
ConcurrentMissesOnEmptyCache ==
  /\ \A c \in Callers :
       /\ Done(c) /\ call[c].item = "i1" /\ call[c].language = "en"
       /\ call[c].gens = 1 /\ ~call[c].readFailed /\ prev[c] = NoPrev
  /\ \E c \in Callers : call[c].overlapped
  /\ word_ai_cache[<<"i1", "en">>] # NoRow => word_ai_cache[<<"i1", "en">>].id # <<"db", 0>>

\* C8 (as stated): after two concurrent calls for one key on an empty cache
\* the store holds one entry for the key and both callers have a result.
C8_ConcurrentCallsBothServed ==
  ConcurrentMissesOnEmptyCache =>
    /\ word_ai_cache[<<"i1", "en">>] # NoRow
    /\ \A c \in Callers : call[c].status = 200

ExpectedRefusal(c) ==
  LET i == call[c].item
  IN  IF i \notin DOMAIN user_vocabulary \/ user_vocabulary[i].user_id # call[c].user THEN 404
      ELSE IF user_vocabulary[i].language # call[c].language THEN 400
      ELSE IF user_vocabulary[i].word = "" THEN 500
      ELSE 0

\* C10: a request that fails a precondition is refused with 404, 400 or 500
\* (404 when the item cannot be read) and its call makes no cache lookup, no
\* generation call and no cache write.
C10_PreconditionFailureShortCircuits ==
  \A c \in Callers :
    /\ (call[c].pc \notin {"idle", "fetch"} /\ ExpectedRefusal(c) # 0) =>
         /\ Done(c)
         /\ call[c].status = IF call[c].readFailed THEN 404 ELSE ExpectedRefusal(c)
    /\ (Done(c) /\ call[c].detail \notin {"", GenerationErrorDetail}) =>
         /\ call[c].status \in {404, 400, 500}
         /\ call[c].lookups = 0 /\ call[c].gens = 0 /\ call[c].writes = 0
         /\ call[c].result = NoResult

C10_Witness ==
  /\ \E c \in Callers : Done(c) /\ call[c].status = 400 /\ call[c].lookups = 0
  /\ \E c \in Callers : Done(c) /\ call[c].status = 500 /\ call[c].item = "i3"
                          /\ call[c].gens = 0 /\ call[c].writes = 0


(***************************************************************************)
(* Properties of GeminiEngine.analyze_text on decoded answers.             *)
(***************************************************************************)
Validated == validation.pc = "validated"

\* An integer from 0 to 100, by the test analyze_text itself applies:
\* isinstance(v, int), which holds of a bool too (True is the integer 1).
IsPercentInteger(v) == isinstance_int(v) /\ InPercentRange(v)

\* C11: whatever the decoded answer, the validated result holds the nine
\* fields, its score is an integer from 0 to 100 and so is each of the three
\* rubric scores: a value of the wrong type or out of range has been
\* replaced by its default, and nothing is raised.
C11_ValidatedScoresArePercentIntegers ==
  Validated =>
    /\ DOMAIN validation.result = FeedbackKeys
    /\ IsPercentInteger(validation.result.score)
    /\ DOMAIN validation.result.rubric = RubricKeys
    /\ \A key \in RubricKeys : IsPercentInteger(validation.result.rubric[key])

\* An answer with a score of 101 and a rubric with a string, a negative
\* number and a valid score: 50, and 0, 0 and the valid score.
C11_Witness ==
  /\ Validated
  /\ validation.out = "json_object"
  /\ {"score", "rubric"} \subseteq DOMAIN validation.feedback_json
  /\ validation.feedback_json.score = PyInt(101)
  /\ validation.feedback_json.rubric.isDict
  /\ validation.feedback_json.rubric.scores =
       [grammar |-> <<"str", 0>>, vocabulary |-> PyInt(0 - 1), complexity |-> PyInt(100)]
  /\ validation.result.score = PyInt(GEMINI_DEFAULT_SCORE)
  /\ validation.result.rubric =
       [grammar |-> PyInt(0), vocabulary |-> PyInt(0), complexity |-> PyInt(100)]

\* The positions of the elements that are not dicts with the required keys.
MalformedAt(items, required) ==
  {i \in 1..Len(items) : ~(items[i].isDict /\ required \subseteq items[i].keys)}
RemoveAt(items, j) ==
  [i \in 1..(Len(items) - 1) |-> IF i < j THEN items[i] ELSE items[i + 1]]
OneMalformed(key, required) ==
  /\ Validated
  /\ validation.out = "json_object"
  /\ key \in DOMAIN validation.feedback_json
  /\ validation.feedback_json[key].isList
  /\ Cardinality(MalformedAt(validation.feedback_json[key].items, required)) = 1
KeepsTheOthers(key, required) ==
  LET items == validation.feedback_json[key].items
  IN  validation.result[key] =
        RemoveAt(items, CHOOSE j \in MalformedAt(items, required) : TRUE)

\* C12: a grammar_suggestions or new_words list with one malformed element
\* among well-formed ones validates to exactly the well-formed elements, in
\* the order they had in the answer.
C12_OneMalformedElementDropped ==
  /\ OneMalformed("grammar_suggestions", SuggestionKeys)
       => KeepsTheOthers("grammar_suggestions", SuggestionKeys)
  /\ OneMalformed("new_words", NewWordKeys)
       => KeepsTheOthers("new_words", NewWordKeys)

\* Two well-formed suggestions around a malformed one, and two well-formed
\* words after an element that is not a dict.
C12_Witness ==
  /\ OneMalformed("grammar_suggestions", SuggestionKeys)
  /\ OneMalformed("new_words", NewWordKeys)
  /\ MalformedAt(validation.feedback_json.grammar_suggestions.items, SuggestionKeys) = {2}
  /\ Len(validation.result.grammar_suggestions) = 2
  /\ validation.result.grammar_suggestions[1].pos = 1
  /\ validation.result.grammar_suggestions[2].pos = 3
  /\ ~validation.feedback_json.new_words.items[1].isDict
  /\ Len(validation.result.new_words) = 2
  /\ validation.result.new_words[1].pos = 2
  /\ validation.result.new_words[2].pos = 3

(***************************************************************************)
(* Properties of the cache hit.                                            *)
(***************************************************************************)
\* The store held an entry for the requested key when the call read it.
EntryExisted(c) == Done(c) /\ call[c].lookups = 1 /\ call[c].found # NoRow
ServedFromEntry(c) ==
  /\ call[c].status = 200
  /\ call[c].result = EnrichedWordDetailsResponse(call[c].found.id, call[c].found).value
  /\ call[c].gens = 0
  /\ call[c].writes = 0

C14_GenerationFailureRefused ==
  \A c \in Callers :
    (Done(c) /\ call[c].engineRaised)
      => call[c].status = 500 /\ call[c].gens = 1 /\ call[c].writes = 0

(***************************************************************************)
(* Properties of generate_feedback.                                        *)
(***************************************************************************)
\* C15: for every entry text, the empty one included, and whichever adapter
\* produced the analysis (Mistral, Gemini or the mock), generate_feedback
\* returns a dict with the keys corrected, rewritten, score, tone,
\* translation and explanation, whose score is an integer from 0 to 100.
C15_FeedbackKeysAndPercentScore ==
  AnalysisDone =>
    /\ analysis.outcome = "returned"
    /\ {"corrected", "rewritten", "score", "tone", "translation", "explanation"}
         \subseteq DOMAIN Feedback
    /\ IsPercentInteger(Feedback.score)

\* The empty text analysed by Gemini, whose answer carried a score of 101.
C15_Witness ==
  /\ AnalysisDone
  /\ analysis.text = <<>>
  /\ analysis.attempts = <<"gemini">>
  /\ analysis.gemini = "validated"
  /\ "score" \in DOMAIN analysis.feedback_json
  /\ analysis.feedback_json.score = PyInt(101)
  /\ Feedback.score = PyInt(GEMINI_DEFAULT_SCORE)
  /\ Feedback.tone = <<"gemini:tone">>

(***************************************************************************)
(* Properties of the on-demand operations.                                 *)
(***************************************************************************)
OnDemandStep == ondemand'.calls = ondemand.calls + 1

\* C16: an on-demand operation (more examples, ELI5, mini quiz) leaves the
\* cache table as it was, whatever the table holds, and makes one
\* generation call of its own: what it returns is what that call generated.
C16_OnDemandLeavesCacheAlone ==
  [][OnDemandStep =>
       /\ word_ai_cache' = word_ai_cache
       /\ ondemand'.gens = ondemand.gens + 1
       /\ ondemand'.status = 200 => ondemand'.result = ondemand'.engine.value]_vars

\* Two on-demand calls answered for the word of an item whose entry
\* get_or_create had stored before them: two generation calls, the entry
\* still there.
C16_Witness ==
  /\ ondemand.calls = 2
  /\ ondemand.gens = 2
  /\ ondemand.status = 200
  /\ ondemand.word = user_vocabulary["i1"].word
  /\ genCount = 1
  /\ call["c1"].pc = "done"
  /\ call["c1"].status = 200
  /\ word_ai_cache[<<"i1", "en">>] # NoRow
  /\ word_ai_cache[<<"i1", "en">>].id = call["c1"].result.id

\* The answer of the last on-demand call to the engine's outcome.
LastOnDemand(ops) == ondemand.calls > 0 /\ ondemand.op \in ops

EngineRaised == ondemand.engine.raised
EngineReturnedNothing == ~ondemand.engine.raised /\ ondemand.engine.value = <<>>

\* C17: generate_more_examples and explain_like_i_am_five answer only with
\* the non-empty content the engine returned; when the engine returned an
\* empty list or string, or raised, they raise HTTP 500, with the engine's
\* message in the detail when it raised.
C17_EmptyOrFailedGenerationRefused ==
  LastOnDemand({"more_examples", "eli5"}) =>
    /\ ondemand.status \in {200, 500}
    /\ ondemand.status = 200 =>
         /\ ~EngineRaised
         /\ ondemand.engine.value # <<>>
         /\ ondemand.result = ondemand.engine.value
    /\ EngineReturnedNothing =>
         /\ ondemand.status = 500
         /\ ondemand.detail \in {<<"AI engine failed to generate more examples.">>,
                                 <<"AI engine failed to generate ELI5 explanation.">>}
    /\ EngineRaised =>
         /\ ondemand.status = 500
         /\ Len(ondemand.detail) = 2
         /\ ondemand.detail[2] = ondemand.engine.value

\* The engine returned an empty list to the second call.
C17_Witness ==
  /\ LastOnDemand({"more_examples"})
  /\ ondemand.calls = 2
  /\ EngineReturnedNothing
  /\ ondemand.status = 500
  /\ ondemand.detail = <<"AI engine failed to generate more examples.">>

(***************************************************************************)
(* Properties of POST /log-entry.                                          *)
(***************************************************************************)
Answered201 == server.pc = "responded" /\ server.status = 201

\* The score of the analysis: under fluency_score in what the Mistral
\* module returns, under score in what Gemini and the mock return.
AnalysisFluencyScore ==
  IF "fluency_score" \in DOMAIN analysis.result THEN analysis.result.fluency_score
  ELSE analysis.result.score

\* C18: a POST /log-entry answered 201 has called save_entry exactly once,
\* with the submitted text as original_text and with the corrected text,
\* the rewrite, the tone and the translation of the analysis, and the
\* fluency score of the analysis as score.
C18_SavedEntryCarriesAnalysis ==
  Answered201 =>
    /\ server.saves = 1
    /\ server.entry_data.original_text = analysis.text
    /\ server.entry_data.corrected = analysis.result.corrected
    /\ server.entry_data.rewrite = analysis.result.rewrite
    /\ server.entry_data.tone = analysis.result.tone
    /\ server.entry_data.translation = analysis.result.translation
    /\ server.entry_data.score = PydanticInt(AnalysisFluencyScore)

(***************************************************************************)
(* Properties of analyze_entry on failed and on unusable answers.          *)
(***************************************************************************)
\* The attempt of the adapter failed: the Mistral module raised or fell
\* back to its own mock, the Gemini call failed or its text did not decode.
FailedAttempt(adapter) ==
  \/ adapter = "mistral" /\ analysis.mistral \in {"raised", "mock"}
  \/ adapter = "gemini" /\ analysis.gemini = "fallback"

\* C19: when the backend call of an adapter fails, analyze_entry goes on to
\* the next adapter: the attempt that failed is not the last one, its
\* outcome is not what analyze_entry returns.
C19_FailedAttemptAdvances ==
  AnalysisDone =>
    \A i \in 1..Len(analysis.attempts) :
      FailedAttempt(analysis.attempts[i]) => i < Len(analysis.attempts)

\* Gemini answered with an object whose grammar_suggestions or new_words is
\* not a list.
NonListAnswer(key) ==
  /\ AnalysisDone
  /\ analysis.gemini = "validated"
  /\ key \in DOMAIN analysis.feedback_json
  /\ ~analysis.feedback_json[key].isList
ListKeys == {"grammar_suggestions", "new_words"}

\* C20 (as stated): an answer whose grammar_suggestions or new_words is not
\* a list is treated as a failure of the adapter: analyze_entry goes on to
\* the next adapter, the mock.
C20_NonListAnswerAdvances ==
  \A key \in ListKeys :
    NonListAnswer(key) =>
      analysis.attempts[Len(analysis.attempts)] = "mock"

\* C20: an answer whose grammar_suggestions or new_words is not a list is
\* returned as Gemini's result with the empty list in that field; no other
\* adapter is tried after Gemini.
C20_NonListAnswerDefaulted ==
  \A key \in ListKeys :
    NonListAnswer(key) =>
      /\ analysis.outcome = "returned"
      /\ analysis.attempts[Len(analysis.attempts)] = "gemini"
      /\ analysis.result = ProcessedFeedback(analysis.feedback_json)
      /\ analysis.result[key] = <<>>

\* Gemini, the only adapter tried, answered with new_words that is not a
\* list: its result is returned, new_words empty.
C20_Witness ==
  /\ NonListAnswer("new_words")
  /\ analysis.attempts = <<"gemini">>
  /\ analysis.result.new_words = <<>>
  /\ analysis.result.score = PyInt(100)

(***************************************************************************)
(* Properties of the order of the attempts in analyze_entry.               *)
(***************************************************************************)
Attempted == {analysis.attempts[i] : i \in 1..Len(analysis.attempts)}

\* C21: within one analyze_entry call each adapter is invoked at most once:
\* an attempt is always of an adapter not tried before, and once the call
\* has returned no adapter is invoked any more.
C21_EachAdapterAtMostOnce ==
  [][/\ analysis.pc = "done" => analysis' = analysis
     /\ analysis'.attempts # analysis.attempts =>
          \E adapter \in {"mistral", "gemini", "mock"} \ Attempted :
            analysis'.attempts = Append(analysis.attempts, adapter)]_vars

\* Mistral raised and the mock answered: two attempts, one per adapter.
C21_Witness ==
  /\ AnalysisDone
  /\ analysis.mistral = "raised"
  /\ analysis.attempts = <<"mistral", "mock">>
  /\ analysis.outcome = "returned"


\* C22: missing Gemini credentials are detected when the process starts and
\* never by a request: no request's engine construction fails, and every
\* request still gets its engine.
C22_MissingCredentialsFoundAtStartup ==
  ~GEMINI_API_KEY => deps.outcome # "raised" /\ deps.constructed_at = 0

\* C23: with USE_MISTRAL on and the Gemini key set, a Mistral failure is
\* followed by a Gemini attempt, and the mock answers only after that
\* attempt, as the third adapter.
C23_GeminiAttemptFollowsMistralFailure ==
  (AnalysisDone /\ USE_MISTRAL /\ GEMINI_API_KEY /\ analysis.mistral = "raised")
    => /\ Len(analysis.attempts) >= 2
       /\ analysis.attempts[2] = "gemini"
       /\ \A i \in 1..Len(analysis.attempts) : analysis.attempts[i] = "mock" => i = 3

\* The caller cancelled the analysis while an adapter attempt was in flight.
CancelledInFlight == analysis.gemini = "cancelled"

\* C24: once the caller has cancelled analyze_entry during an adapter
\* attempt, no further adapter is tried and the call ends with a
\* cancellation, which is not a returned result (and so not the fallback
\* result of the case where every adapter failed).
C24_CancellationStopsTheCall ==
  CancelledInFlight =>
    /\ analysis.pc = "done"
    /\ analysis.outcome = "cancelled"
    /\ analysis.result = NoDict
    /\ analysis.attempts[Len(analysis.attempts)] = "gemini"
    /\ \A i \in 1..Len(analysis.attempts) : analysis.attempts[i] # "mock"

\* Gemini was the only adapter and its attempt was cancelled.
C24_Witness ==
  /\ CancelledInFlight /\ ~USE_MISTRAL /\ AnalysisDone
  /\ analysis.attempts = <<"gemini">> /\ analysis.outcome = "cancelled"

\* The write of the call reached the store (its answer may have been lost).
Wrote(cl) == cl.writes = 1 /\ cl.saved \in {"ok", "lost"}

\* Callers c and d asked for one key, both looked it up when it had no
\* entry and both generated; d has written, c is about to.
LaterWriteOf(c, d) ==
  /\ c # d
  /\ call[c].pc = "save" /\ call[d].pc = "done"
  /\ call[c].item = call[d].item /\ call[c].language = call[d].language
  /\ call[c].found = NoRow /\ call[d].found = NoRow
  /\ call[c].gens = 1 /\ call[d].gens = 1
  /\ Wrote(call[d])
  /\ Wrote(call'[c])

SaveAttempted == server.pc = "responded" /\ server.saves = 1

\* C26: whether save_entry stored the entry or raised, POST /log-entry
\* answers 201 with the feedback built from the analysis.
C26_SaveFailureKeepsResponse ==
  SaveAttempted =>
    /\ server.status = 201
    /\ server.feedback_response = FeedbackResponse(analysis.text, analysis.result).value

\* save_entry raised and the request was answered 201 with the feedback.
C26_Witness ==
  /\ SaveAttempted /\ ~server.stored
  /\ server.status = 201
  /\ server.feedback_response # NoResult
  /\ server.feedback_response.corrected = analysis.result.corrected

\* The call read an entry for its key that the response model rejects.
UnusableEntryRead(c) ==
  /\ EntryExisted(c) /\ ~call[c].readFailed
  /\ EnrichedWordDetailsResponse(call[c].found.id, call[c].found).raised

\* C27: a call that reads an entry it cannot convert into a response does
\* not fail: it generates a new result, writes it for the key and answers
\* with it.
C27_UnusableEntryRegenerated ==
  \A c \in Callers :
    UnusableEntryRead(c) =>
      /\ call[c].status = 200
      /\ call[c].gens = 1
      /\ call[c].writes = 1

(***************************************************************************)
(* Properties of the v2 enrichment service.                                *)
(***************************************************************************)
\* The three marker columns of the row are empty or absent.
MarkersEmpty(row) == \A f \in EnrichmentMarkers : row[f] \in {"absent", "none", "empty"}

\* C28: a call that finds the item invokes generation exactly when the
\* three marker columns of the stored item are empty or absent; so after a
\* generation result with three empty markers was stored, the next call
\* generates again.
C28_GeneratesIffMarkersEmpty ==
  [][v2' # v2 =>
       /\ v2'.found => (v2'.generated <=> MarkersEmpty(v2.item))
       /\ (v2.generated /\ v2.stored /\ MarkersEmpty(v2.item) /\ v2'.found)
            => v2'.generated]_vars

\* A generation result with empty markers and example sentences was
\* stored, and the next call generated again.
C28_Witness ==
  /\ v2.calls = 2 /\ v2.found /\ v2.generated
  /\ MarkersEmpty(v2.before)
  /\ v2.before.ai_example_sentences = "content"
  /\ v2.status = 200

(***************************************************************************)
(* Properties of normalize_language.                                       *)
(***************************************************************************)
\* The two-letter code of the language of a key of the table: its value,
\* or the value of the full name it maps to.
CodeOf(key) ==
  LET v == LANGUAGE_MAPPINGS[key]
  IN  IF Len(v) = 2 THEN v ELSE LANGUAGE_MAPPINGS[v]

Normalised == norm.pc = "returned" /\ norm.to_code

\* C29: normalize_language maps every key of LANGUAGE_MAPPINGS to the
\* two-letter code of the key's language, is idempotent, and returns an
\* input that is no key of the table unchanged.
C29_KeysNormalisedToTheirCode ==
  Normalised =>
    /\ norm.language_input \in LanguageKeys => norm.result = CodeOf(norm.language_input)
    /\ norm.again = norm.result
    /\ norm.language_input \notin LanguageKeys => norm.result = norm.language_input

(***************************************************************************)
(* Properties of the per-field word enrichment.                            *)
(***************************************************************************)
\* The empty default of a field.
EmptyDefault(f) == IF f = "synonyms_antonyms" THEN EmptySynonymsAntonyms ELSE EmptyList

\* The call made its generation calls (one of the engines was there).
FieldCallsMade == perfield.pc = "done" /\ (USE_MISTRAL \/ gemini_ai_engine)

\* C30: whichever generation calls fail, the call returns a dict with the
\* six field keys; a failed field holds None or its empty default, a field
\* whose call answered holds the answer, and synonyms_antonyms is not None.
C30_EveryFieldKeyWhateverFails ==
  perfield.pc = "done" =>
    /\ perfield.enrichment_data # NoDict
    /\ DOMAIN perfield.enrichment_data = PromptFields
    /\ perfield.enrichment_data.synonyms_antonyms # None
    /\ FieldCallsMade =>
         \A f \in PromptFields :
           IF perfield.outs[f] = "ok"
           THEN perfield.enrichment_data[f] = Content(1)
           ELSE perfield.enrichment_data[f] \in {None, EmptyDefault(f)}

\* Gemini failed for synonyms_antonyms and for the mnemonic and answered
\* for the cultural note.
C30_Witness ==
  /\ FieldCallsMade /\ ~USE_MISTRAL
  /\ perfield.outs.synonyms_antonyms = "raises"
  /\ perfield.outs.mnemonic = "raises"
  /\ perfield.outs.cultural_note = "ok"
  /\ perfield.enrichment_data.synonyms_antonyms = EmptySynonymsAntonyms
  /\ perfield.enrichment_data.mnemonic = None
  /\ perfield.enrichment_data.cultural_note = Content(1)

====
